---- MODULE Spec2Model ----
(***************************************************************************)
(* Thuk: the text understanding engine (app/processors/text_parser.py,     *)
(* app/utils/currency.py), the routing state machine                       *)
(* (app/agents/supervisor.py) and the split calculator                     *)
(* (app/agents/split_agent.py), as a state machine over one message.       *)
(*                                                                         *)
(* A message text is a TLA+ string; a character is a string of length 1.   *)
(* Regular expressions are syntax trees matched by a backtracking matcher  *)
(* with the priority order of Python's re module (greedy quantifiers,      *)
(* alternatives left to right, leftmost match first).                      *)
(***************************************************************************)
EXTENDS Integers, Sequences, FiniteSets, TLC

\* Optional values: None is the empty tuple, a present value v is <<v>>
None == <<>>
Some(v) == <<v>>
The(x) == x[1]

\* ------------------------------------------------------------------------
\* Characters and strings
\* ------------------------------------------------------------------------
UpperLetters == "ABCDEFGHIJKLMNOPQRSTUVWXYZ"
LowerLetters == "abcdefghijklmnopqrstuvwxyz"
DigitChars == "0123456789"

CharAt(s, i) == SubSeq(s, i, i)

CharsOf(s) == {CharAt(s, i) : i \in 1..Len(s)}

IndexIn(alphabet, c) ==
    IF \E i \in 1..Len(alphabet) : CharAt(alphabet, i) = c
    THEN CHOOSE i \in 1..Len(alphabet) : CharAt(alphabet, i) = c
    ELSE 0

IsDigit(c) == IndexIn(DigitChars, c) > 0
IsUpper(c) == IndexIn(UpperLetters, c) > 0
IsLower(c) == IndexIn(LowerLetters, c) > 0
IsSpace(c) == c = " "
\* \w of the re module, on the characters that occur in the messages
IsWordChar(c) == IsDigit(c) \/ IsUpper(c) \/ IsLower(c) \/ c = "_"

DigitVal(c) == IndexIn(DigitChars, c) - 1

LowerChar(c) ==
    IF IsUpper(c) THEN CharAt(LowerLetters, IndexIn(UpperLetters, c)) ELSE c
UpperChar(c) ==
    IF IsLower(c) THEN CharAt(UpperLetters, IndexIn(LowerLetters, c)) ELSE c

RECURSIVE MapChars(_, _)
\* the string with every character replaced by its lower-case (up = FALSE)
\* or upper-case (up = TRUE) form, halving the string to keep evaluation shallow
MapChars(s, up) ==
    IF Len(s) = 0 THEN ""
    ELSE IF Len(s) = 1 THEN (IF up THEN UpperChar(s) ELSE LowerChar(s))
    ELSE LET h == Len(s) \div 2
         IN MapChars(SubSeq(s, 1, h), up) \o MapChars(SubSeq(s, h + 1, Len(s)), up)

\* str.lower()
StrLower(s) == MapChars(s, FALSE)

\* str.strip()
StrStrip(s) ==
    IF \A i \in 1..Len(s) : IsSpace(CharAt(s, i)) THEN ""
    ELSE LET a == CHOOSE i \in 1..Len(s) :
                    ~IsSpace(CharAt(s, i)) /\ \A j \in 1..(i - 1) : IsSpace(CharAt(s, j))
             b == CHOOSE i \in 1..Len(s) :
                    ~IsSpace(CharAt(s, i)) /\ \A j \in (i + 1)..Len(s) : IsSpace(CharAt(s, j))
         IN SubSeq(s, a, b)

RECURSIVE RemoveChar(_, _)
\* str.replace(c, "") for a single character c
RemoveChar(s, c) ==
    IF Len(s) = 0 THEN ""
    ELSE IF Len(s) = 1 THEN (IF s = c THEN "" ELSE s)
    ELSE LET h == Len(s) \div 2
         IN RemoveChar(SubSeq(s, 1, h), c) \o RemoveChar(SubSeq(s, h + 1, Len(s)), c)

\* the "in" operator on strings
Contains(s, sub) ==
    \E i \in 1..(Len(s) - Len(sub) + 1) : SubSeq(s, i, i + Len(sub) - 1) = sub

\* str.capitalize(): first character upper-cased, the rest lower-cased
Capitalize(s) == IF s = "" THEN "" ELSE UpperChar(Head(s)) \o StrLower(Tail(s))

\* ------------------------------------------------------------------------
\* Regular expressions (the subset of re syntax the program uses)
\* ------------------------------------------------------------------------
Lit(str) == [t |-> "lit", s |-> str]
Cls(chars) == [t |-> "cls", cs |-> chars]
Cat(parts) == [t |-> "cat", rs |-> parts]
Alt(parts) == [t |-> "alt", rs |-> parts]
Opt(r) == [t |-> "opt", r |-> r]
\* r{lo,hi}, greedy; Unbounded stands for no upper limit
Unbounded == -1
Rep(r, lo, hi) == [t |-> "rep", r |-> r, lo |-> lo, hi |-> hi]
Star(r) == Rep(r, 0, Unbounded)
Plus(r) == Rep(r, 1, Unbounded)
WordB == [t |-> "wb"]
ReAny == [t |-> "any"]

ReDigit == Cls(CharsOf(DigitChars))
ReSpace == Cls({" "})
ReUpper == Cls(CharsOf(UpperLetters))
ReLower == Cls(CharsOf(LowerLetters))

\* a|b|c over literal strings
LitAlt(strs) == Alt([k \in 1..Len(strs) |-> Lit(strs[k])])

WordCharAt(s, i) == i >= 1 /\ i <= Len(s) /\ IsWordChar(CharAt(s, i))

\* does the one-character pattern r (a class or the dot) match s[i]
CharMatches(r, s, i) ==
    /\ i >= 1 /\ i <= Len(s)
    /\ (r.t = "any" \/ (r.t = "cls" /\ CharAt(s, i) \in r.cs))

\* the number of consecutive characters from s[i] on that r matches
RunLength(r, s, i) ==
    IF \A k \in i..Len(s) : CharMatches(r, s, k) THEN Len(s) - i + 1
    ELSE (CHOOSE k \in i..Len(s) :
            ~CharMatches(r, s, k) /\ \A j \in i..(k - 1) : CharMatches(r, s, j)) - i

RECURSIVE ConcatAll(_, _, _)
\* ss[lo] \o ... \o ss[hi]
ConcatAll(ss, lo, hi) ==
    IF lo > hi THEN <<>>
    ELSE IF lo = hi THEN ss[lo]
    ELSE LET mid == (lo + hi) \div 2
         IN ConcatAll(ss, lo, mid) \o ConcatAll(ss, mid + 1, hi)

RECURSIVE Ends(_, _, _), CatEnds(_, _, _, _), RepEnds(_, _, _, _, _)

\* The end positions (index of the first unread character) of the matches of
\* r that start at position i of s, in the order the backtracking matcher
\* tries them.
Ends(r, s, i) ==
    CASE r.t = "lit" ->
            IF i + Len(r.s) - 1 <= Len(s) /\ SubSeq(s, i, i + Len(r.s) - 1) = r.s
            THEN <<i + Len(r.s)>> ELSE <<>>
      [] r.t \in {"cls", "any"} -> IF CharMatches(r, s, i) THEN <<i + 1>> ELSE <<>>
      [] r.t = "wb" -> IF WordCharAt(s, i - 1) # WordCharAt(s, i) THEN <<i>> ELSE <<>>
      [] r.t = "cat" -> CatEnds(r.rs, 1, s, i)
      [] r.t = "alt" ->
            ConcatAll([k \in 1..Len(r.rs) |-> Ends(r.rs[k], s, i)], 1, Len(r.rs))
      [] r.t = "opt" -> Ends(r.r, s, i) \o <<i>>
      [] r.t = "rep" ->
            IF r.r.t \in {"cls", "any"}
            THEN \* a run of single characters: longest first, down to lo
                 LET run == RunLength(r.r, s, i)
                     m == IF r.hi # Unbounded /\ run > r.hi THEN r.hi ELSE run
                 IN IF m < r.lo THEN <<>>
                    ELSE [k \in 1..(m - r.lo + 1) |-> i + m - k + 1]
            ELSE RepEnds(r.r, r.lo, r.hi, s, i)

CatEnds(rs, k, s, i) ==
    IF k > Len(rs) THEN <<i>>
    ELSE LET ps == Ends(rs[k], s, i)
         IN ConcatAll([j \in 1..Len(ps) |-> CatEnds(rs, k + 1, s, ps[j])], 1, Len(ps))

\* greedy r{lo,hi} of a compound r: one more repetition is tried before stopping
RepEnds(r, lo, hi, s, i) ==
    IF hi = 0 THEN <<i>>
    ELSE LET ps == SelectSeq(Ends(r, s, i), LAMBDA p : p > i)
         IN ConcatAll([j \in 1..Len(ps) |->
                          RepEnds(r, IF lo > 0 THEN lo - 1 ELSE 0,
                                  IF hi = Unbounded THEN hi ELSE hi - 1, s, ps[j])],
                      1, Len(ps))
            \o (IF lo = 0 THEN <<i>> ELSE <<>>)

RECURSIVE Bounds(_, _, _, _), FirstBounds(_, _, _, _, _, _, _)
\* The pattern is the concatenation of parts. Bounds is <<>> when it does
\* not match at i, else <<i, p1, .., pn>>: part k of the first match in
\* priority order spans [p(k-1), pk).
Bounds(parts, k, s, i) ==
    IF k > Len(parts) THEN <<i>>
    ELSE LET ps == Ends(parts[k], s, i)
         IN FirstBounds(ps, 1, Len(ps), parts, k, s, i)

\* the first of ps[lo..hi] from which the remaining parts match
FirstBounds(ps, lo, hi, parts, k, s, i) ==
    IF lo > hi THEN <<>>
    ELSE IF lo = hi
    THEN LET rest == Bounds(parts, k + 1, s, ps[lo])
         IN IF rest # <<>> THEN <<i>> \o rest ELSE <<>>
    ELSE LET mid == (lo + hi) \div 2
             left == FirstBounds(ps, lo, mid, parts, k, s, i)
         IN IF left # <<>> THEN left
            ELSE FirstBounds(ps, mid + 1, hi, parts, k, s, i)

RECURSIVE SearchIn(_, _, _, _)
\* the bounds of the leftmost match that starts in lo..hi, or <<>>
SearchIn(parts, s, lo, hi) ==
    IF lo > hi THEN <<>>
    ELSE IF lo = hi THEN Bounds(parts, 1, s, lo)
    ELSE LET mid == (lo + hi) \div 2
             left == SearchIn(parts, s, lo, mid)
         IN IF left # <<>> THEN left ELSE SearchIn(parts, s, mid + 1, hi)

\* The subject a pattern is matched on. ic is re.IGNORECASE: the literals of
\* the program's patterns are lower-case and the classes of its IGNORECASE
\* patterns hold no letters, so matching the lower-cased text is the same.
Subject(s, ic) == IF ic THEN StrLower(s) ELSE s

\* re.search(pattern, s)
Search(parts, s, ic) == SearchIn(parts, Subject(s, ic), 1, Len(s) + 1)

\* the text of part k of a match (match.group for a part that is a group)
Group(s, b, k) == SubSeq(s, b[k], b[k + 1] - 1)

RECURSIVE SubFrom(_, _, _, _, _)
\* re.sub(pattern, repl, s) for a pattern without empty matches: every
\* non-overlapping match from position i on, left to right; subj is the
\* subject the pattern is matched on
SubFrom(parts, repl, s, subj, i) ==
    LET b == SearchIn(parts, subj, i, Len(s) + 1)
    IN IF b = <<>> THEN SubSeq(s, i, Len(s))
       ELSE SubSeq(s, i, b[1] - 1) \o repl \o SubFrom(parts, repl, s, subj, b[Len(b)])

ReSub(parts, repl, s, ic) == SubFrom(parts, repl, s, Subject(s, ic), 1)

\* ------------------------------------------------------------------------
\* decimal.Decimal under the default context: non-negative values c * 10^e,
\* c a tuple of digits, most significant first; arithmetic results are
\* rounded to DecimalPrec significant digits, ROUND_HALF_EVEN
\* ------------------------------------------------------------------------
DecimalPrec == 28

Zeros(n) == [k \in 1..n |-> 0]

\* the digits without leading zeros
StripLead(ds) ==
    IF \A k \in 1..Len(ds) : ds[k] = 0 THEN <<>>
    ELSE SubSeq(ds, CHOOSE k \in 1..Len(ds) : ds[k] # 0 /\ \A j \in 1..(k - 1) : ds[j] = 0,
                Len(ds))

\* the value without trailing zeros of the coefficient (numeric identity)
DecNorm(d) ==
    LET c == StripLead(d.c)
    IN IF c = <<>> THEN [c |-> <<>>, e |-> 0]
       ELSE LET last == CHOOSE k \in 1..Len(c) :
                            c[k] # 0 /\ \A j \in (k + 1)..Len(c) : c[j] = 0
            IN [c |-> SubSeq(c, 1, last), e |-> d.e + (Len(c) - last)]

\* == on Decimal values
DecEq(a, b) == DecNorm(a) = DecNorm(b)
DecIsZero(a) == StripLead(a.c) = <<>>

\* the digit tuple plus one
IncDigits(ds) ==
    IF \A k \in 1..Len(ds) : ds[k] = 9 THEN <<1>> \o Zeros(Len(ds))
    ELSE LET p == CHOOSE k \in 1..Len(ds) : ds[k] # 9 /\ \A j \in (k + 1)..Len(ds) : ds[j] = 9
         IN [k \in 1..Len(ds) |-> IF k < p THEN ds[k] ELSE IF k = p THEN ds[k] + 1 ELSE 0]

\* the context's rounding of the exact value ds * 10^e (+ a non-zero tail
\* below the last digit when sticky)
DecRound(ds0, e, sticky) ==
    LET ds == StripLead(ds0)
    IN IF Len(ds) <= DecimalPrec THEN [c |-> ds, e |-> e]
       ELSE LET keep == SubSeq(ds, 1, DecimalPrec)
                rest == SubSeq(ds, DecimalPrec + 1, Len(ds))
                more == sticky \/ \E k \in 2..Len(rest) : rest[k] # 0
                up == rest[1] > 5
                      \/ (rest[1] = 5 /\ (more \/ keep[DecimalPrec] % 2 = 1))
            IN [c |-> IF up THEN IncDigits(keep) ELSE keep, e |-> e + Len(rest)]

RECURSIVE PowMod(_, _)
\* 10^k mod n
PowMod(k, n) ==
    IF k = 0 THEN 1 % n
    ELSE LET h == PowMod(k \div 2, n)
         IN (((h * h) % n) * (IF k % 2 = 1 THEN 10 ELSE 1)) % n

RECURSIVE DigitsMod(_, _, _, _)
\* the number written ds[lo..hi], mod n
DigitsMod(ds, lo, hi, n) ==
    IF lo > hi THEN 0
    ELSE IF lo = hi THEN ds[lo] % n
    ELSE LET mid == (lo + hi) \div 2
         IN (DigitsMod(ds, lo, mid, n) * PowMod(hi - mid, n) + DigitsMod(ds, mid + 1, hi, n)) % n

\* schoolbook division of the number written ds by n: quotient digit k is
\* (10 * remainder of ds[1..k-1] + ds[k]) div n
QuotientDigits(ds, n) ==
    [k \in 1..Len(ds) |-> (DigitsMod(ds, 1, k - 1, n) * 10 + ds[k]) \div n]

NumDigits(n) == IF n < 10 THEN 1 ELSE IF n < 100 THEN 2 ELSE IF n < 1000 THEN 3 ELSE 4

\* a / Decimal(n), n a positive int below 10000: the quotient is carried to
\* more than DecimalPrec significant digits, then rounded
DecDivInt(a, n) ==
    LET need == DecimalPrec + 1 + NumDigits(n) - Len(a.c)
        guard == IF need > 0 THEN need ELSE 0
        ds == a.c \o Zeros(guard)
    IN DecRound(QuotientDigits(ds, n), a.e - guard, DigitsMod(ds, 1, Len(ds), n) # 0)

MinInt(a, b) == IF a < b THEN a ELSE b
MaxInt(a, b) == IF a > b THEN a ELSE b

\* the coefficient of d at exponent e <= d.e, left-padded to n digits
Aligned(d, e, n) ==
    LET c == d.c \o Zeros(d.e - e)
    IN Zeros(n - Len(c)) \o c

AlignedLen(a, b) ==
    MaxInt(Len(a.c) + a.e, Len(b.c) + b.e) - MinInt(a.e, b.e)

\* x - y on digit tuples of equal length, x >= y: position k borrows when
\* the digits to its right form a smaller number in x than in y
SubDigits(x, y) ==
    LET borrow(k) == IF \E j \in (k + 1)..Len(x) :
                            x[j] < y[j] /\ \A m \in (k + 1)..(j - 1) : x[m] = y[m]
                     THEN 1 ELSE 0
    IN [k \in 1..Len(x) |-> (x[k] - y[k] - borrow(k) + 10) % 10]

\* x + y on digit tuples of equal length (one digit longer): position k
\* receives a carry when the digits to its right overflow
AddDigits(x, y) ==
    LET carry(k) == IF \E j \in (k + 1)..Len(x) :
                           x[j] + y[j] > 9 /\ \A m \in (k + 1)..(j - 1) : x[m] + y[m] = 9
                    THEN 1 ELSE 0
    IN <<carry(0)>> \o [k \in 1..Len(x) |-> (x[k] + y[k] + carry(k)) % 10]

\* a - b, for a >= b (every a - a / n with n >= 1 and a of at most
\* DecimalPrec digits, and every n >= 2)
DecSub(a, b) ==
    LET e == MinInt(a.e, b.e)
        n == AlignedLen(a, b)
    IN DecRound(SubDigits(Aligned(a, e, n), Aligned(b, e, n)), e, FALSE)

\* a + b
DecAdd(a, b) ==
    LET e == MinInt(a.e, b.e)
        n == AlignedLen(a, b)
    IN DecRound(AddDigits(Aligned(a, e, n), Aligned(b, e, n)), e, FALSE)

DigitsOf(s) == [k \in 1..Len(s) |-> DigitVal(CharAt(s, k))]

\* Decimal("123.45"): exact, whatever the number of digits; the coefficient
\* is kept without leading zeros (<<>> for zero)
DecFromStr(s) ==
    IF \E i \in 1..Len(s) : CharAt(s, i) = "."
    THEN LET i == CHOOSE i \in 1..Len(s) : CharAt(s, i) = "."
         IN [c |-> StripLead(DigitsOf(SubSeq(s, 1, i - 1) \o SubSeq(s, i + 1, Len(s)))),
             e |-> 0 - (Len(s) - i)]
    ELSE [c |-> StripLead(DigitsOf(s)), e |-> 0]

RECURSIVE IntOf(_, _)
\* int("123")
IntOf(s, acc) == IF s = "" THEN acc ELSE IntOf(Tail(s), acc * 10 + DigitVal(Head(s)))

\* ------------------------------------------------------------------------
\* app/utils/currency.py
\* ------------------------------------------------------------------------
\* dict order; <<word or symbol, code>>
CURRENCY_SYMBOLS ==
    << <<"₹", "INR">>, <<"rs", "INR">>, <<"rs.", "INR">>, <<"inr", "INR">>,
       <<"rupees", "INR">>, <<"rupee", "INR">>,
       <<"$", "USD">>, <<"usd", "USD">>, <<"dollars", "USD">>, <<"dollar", "USD">>,
       <<"€", "EUR">>, <<"eur", "EUR">>, <<"euros", "EUR">>, <<"euro", "EUR">>,
       <<"£", "GBP">>, <<"gbp", "GBP">>, <<"pounds", "GBP">>, <<"pound", "GBP">>,
       <<"¥", "JPY">>, <<"jpy", "JPY">>, <<"yen", "JPY">>,
       <<"aed", "AED">>, <<"dirhams", "AED">>, <<"dirham", "AED">> >>

\* [₹$€£¥]
ReSymbol == Cls({"₹", "$", "€", "£", "¥"})

\* \d+(?:,\d{3})*(?:\.\d{1,2})?
ReNumber ==
    Cat(<<Plus(ReDigit),
          Star(Cat(<<Lit(","), Rep(ReDigit, 3, 3)>>)),
          Opt(Cat(<<Lit("."), Rep(ReDigit, 1, 2)>>))>>)

\* x? after a literal
LitOpt(str, last) == Cat(<<Lit(str), Opt(Lit(last))>>)

\* each pattern as its parts and the index of the part that is group 1
AMOUNT_PATTERNS ==
    << [parts |-> <<ReSymbol, Star(ReSpace), ReNumber>>, grp |-> 3],
       [parts |-> <<ReNumber, Star(ReSpace), ReSymbol>>, grp |-> 1],
       [parts |-> <<Alt(<<LitOpt("rs", "."), Lit("inr"), Lit("usd"), Lit("eur"),
                          Lit("gbp"), Lit("aed")>>),
                    Star(ReSpace), ReNumber>>, grp |-> 3],
       [parts |-> <<ReNumber, Star(ReSpace),
                    Alt(<<LitOpt("rs", "."), LitOpt("rupee", "s"), LitOpt("dollar", "s"),
                          LitOpt("euro", "s"), LitOpt("pound", "s"),
                          LitOpt("dirham", "s")>>)>>, grp |-> 1],
       [parts |-> <<ReNumber>>, grp |-> 1] >>


\* detect_currency without its default: nothing when no symbol or word occurs
detect_currency_no_default(txt) ==
    LET text_lower == StrLower(txt)
        symbols == <<"₹", "$", "€", "£", "¥">>
        code(sym) == (CHOOSE k \in 1..Len(CURRENCY_SYMBOLS) : CURRENCY_SYMBOLS[k][1] = sym)
        symHits == {k \in 1..Len(symbols) : Contains(txt, symbols[k])}
        wordHits == {k \in 1..Len(CURRENCY_SYMBOLS) : Contains(text_lower, CURRENCY_SYMBOLS[k][1])}
        first(S) == CHOOSE k \in S : \A j \in S : k <= j
    IN IF symHits # {} THEN CURRENCY_SYMBOLS[code(symbols[first(symHits)])][2]
       ELSE IF wordHits # {} THEN CURRENCY_SYMBOLS[first(wordHits)][2]
       ELSE ""

\* the currency of the first symbol of the list that occurs in the text,
\* else of the first table entry whose word occurs in the lower-cased text
detect_currency(txt) ==
    LET text_lower == StrLower(txt)
        symbols == <<"₹", "$", "€", "£", "¥">>
        code(sym) == (CHOOSE k \in 1..Len(CURRENCY_SYMBOLS) : CURRENCY_SYMBOLS[k][1] = sym)
        symHits == {k \in 1..Len(symbols) : Contains(txt, symbols[k])}
        wordHits == {k \in 1..Len(CURRENCY_SYMBOLS) : Contains(text_lower, CURRENCY_SYMBOLS[k][1])}
        first(S) == CHOOSE k \in S : \A j \in S : k <= j
    IN IF symHits # {} THEN CURRENCY_SYMBOLS[code(symbols[first(symHits)])][2]
       ELSE IF wordHits # {} THEN CURRENCY_SYMBOLS[first(wordHits)][2]
       ELSE "INR"

RECURSIVE parse_amount_from(_, _)
parse_amount_from(txt, k) ==
    IF k > Len(AMOUNT_PATTERNS) THEN None
    ELSE LET pat == AMOUNT_PATTERNS[k]
             match == Search(pat.parts, txt, TRUE)
         IN IF match # <<>>
            THEN Some(DecFromStr(RemoveChar(Group(txt, match, pat.grp), ",")))
            ELSE parse_amount_from(txt, k + 1)

\* the Decimal of group 1 of the first pattern that matches, commas removed
parse_amount(txt) == parse_amount_from(txt, 1)

\* ------------------------------------------------------------------------
\* app/processors/text_parser.py
\* ------------------------------------------------------------------------
\* class Intent
ADD_EXPENSE == "add_expense"
QUERY_EXPENSES == "query_expenses"
SPLIT_PAYMENT == "split_payment"
CHECK_DEBTS == "check_debts"
SETTLE_DEBT == "settle_debt"
ADD_CATEGORY == "add_category"
LIST_CATEGORIES == "list_categories"
DELETE_EXPENSE == "delete_expense"
HELP == "help"
UNKNOWN == "unknown"

Intent ==
    {ADD_EXPENSE, QUERY_EXPENSES, SPLIT_PAYMENT, CHECK_DEBTS, SETTLE_DEBT,
     ADD_CATEGORY, LIST_CATEGORIES, DELETE_EXPENSE, HELP, UNKNOWN}

\* the intent detection patterns, each a one-element list in the source
EXPENSE_PATTERNS == LitAlt(<<"spent", "paid", "bought", "expense", "cost", "charged">>)
QUERY_PATTERNS ==
    Alt(<<Lit("how much"), Lit("show"), Lit("list"), LitOpt("expense", "s"),
          Lit("spending"), Lit("summary"), Lit("tell me"), Lit("what did i")>>)
SPLIT_PATTERNS ==
    Alt(<<Lit("split"), Lit("divide"), Lit("share"), Lit("among"), Lit("between"),
          Cat(<<Lit("with "), Plus(ReDigit), Lit(" people")>>)>>)
DEBT_CHECK_PATTERNS ==
    LitAlt(<<"who owes", "owes me", "owe me", "my debts", "debt summary", "pending">>)
DEBT_SETTLE_PATTERNS ==
    LitAlt(<<"paid me", "settled", "paid back", "cleared", "received from">>)
CATEGORY_PATTERNS == LitAlt(<<"add category", "new category", "create category">>)
LIST_CATEGORY_PATTERNS ==
    LitAlt(<<"my categories", "list categories", "show categories">>)
DELETE_PATTERNS == LitAlt(<<"delete", "remove", "cancel", "undo">>)

\* dict order; <<category, keywords>>
CATEGORY_KEYWORDS ==
    << <<"food",
         <<"food", "lunch", "dinner", "breakfast", "snack", "meal", "eat", "eating",
           "restaurant", "cafe", "coffee", "tea", "swiggy", "zomato", "ubereats", "doordash",
           "sandwich", "burger", "pizza", "pasta", "noodles", "rice", "curry", "biryani",
           "dosa", "idli", "samosa", "paratha", "roti", "dal", "thali", "momos",
           "chicken", "mutton", "fish", "paneer", "salad", "soup", "bread",
           "chai", "lassi", "juice", "smoothie", "milkshake", "beer", "wine", "drinks",
           "ice cream", "icecream", "cake", "dessert", "sweet", "mithai", "gulab jamun",
           "mcdonalds", "kfc", "dominos", "subway", "starbucks", "ccd", "mcd">> >>,
       <<"transport",
         <<"uber", "ola", "cab", "taxi", "auto", "rickshaw", "bus", "metro", "train",
           "fuel", "petrol", "diesel", "gas", "transport", "travel", "flight", "ticket",
           "rapido", "bike", "scooter", "parking", "toll", "lyft">> >>,
       <<"shopping",
         <<"shopping", "amazon", "flipkart", "myntra", "clothes", "shoes", "electronics",
           "buy", "purchase", "mall", "store", "market", "bazaar", "grocery", "groceries",
           "bigbasket", "blinkit", "zepto", "instamart", "dmart">> >>,
       <<"bills",
         <<"bill", "electricity", "water", "gas", "internet", "wifi", "phone", "recharge",
           "rent", "emi", "loan", "insurance", "tax", "maintenance", "society">> >>,
       <<"entertainment",
         <<"movie", "netflix", "spotify", "amazon prime", "hotstar", "game", "gaming",
           "concert", "show", "subscription", "youtube", "premium", "theatre", "cinema",
           "pvr", "inox", "bookmyshow">> >>,
       <<"health",
         <<"medicine", "doctor", "hospital", "pharmacy", "medical", "health", "gym",
           "fitness", "yoga", "clinic", "lab", "test", "checkup", "apollo", "1mg",
           "pharmeasy", "netmeds">> >> >>

\* dict order; <<range name, pattern parts>>
TIME_PATTERNS ==
    << <<"today", <<WordB, Lit("today"), WordB>> >>,
       <<"yesterday", <<WordB, Lit("yesterday"), WordB>> >>,
       <<"this_week", <<Alt(<<Cat(<<WordB, Lit("this week"), WordB>>),
                             Cat(<<WordB, Lit("week"), WordB>>)>>)>> >>,
       <<"last_week", <<WordB, Lit("last week"), WordB>> >>,
       <<"this_month", <<Alt(<<Cat(<<WordB, Lit("this month"), WordB>>),
                              Cat(<<WordB, Lit("month"), WordB>>)>>)>> >>,
       <<"last_month", <<WordB, Lit("last month"), WordB>> >> >>

\* any(re.search(p, text) for p in patterns)
AnyMatch(pattern, txt) == Search(<<pattern>>, txt, FALSE) # <<>>

\* bool(parse_amount(text)): a Decimal is true unless it is zero
AmountTruthy(txt) == LET a == parse_amount(txt) IN a # None /\ ~DecIsZero(The(a))

\* _detect_intent with the spend verbs and the number tried before the split
\* words
detect_intent_expense_first(txt) ==
    IF AnyMatch(DELETE_PATTERNS, txt) THEN DELETE_EXPENSE
    ELSE IF AnyMatch(DEBT_SETTLE_PATTERNS, txt) THEN SETTLE_DEBT
    ELSE IF AnyMatch(DEBT_CHECK_PATTERNS, txt) THEN CHECK_DEBTS
    ELSE IF AnyMatch(EXPENSE_PATTERNS, txt) THEN ADD_EXPENSE
    ELSE IF AmountTruthy(txt) THEN ADD_EXPENSE
    ELSE IF AnyMatch(SPLIT_PATTERNS, txt) THEN SPLIT_PAYMENT
    ELSE IF AnyMatch(LIST_CATEGORY_PATTERNS, txt) THEN LIST_CATEGORIES
    ELSE IF AnyMatch(CATEGORY_PATTERNS, txt) THEN ADD_CATEGORY
    ELSE IF AnyMatch(QUERY_PATTERNS, txt) THEN QUERY_EXPENSES
    ELSE UNKNOWN

\* the first pattern group that matches, in the order of the if-chain
detect_intent(txt) ==
    IF AnyMatch(DELETE_PATTERNS, txt) THEN DELETE_EXPENSE
    ELSE IF AnyMatch(DEBT_SETTLE_PATTERNS, txt) THEN SETTLE_DEBT
    ELSE IF AnyMatch(DEBT_CHECK_PATTERNS, txt) THEN CHECK_DEBTS
    ELSE IF AnyMatch(SPLIT_PATTERNS, txt) THEN SPLIT_PAYMENT
    ELSE IF AnyMatch(LIST_CATEGORY_PATTERNS, txt) THEN LIST_CATEGORIES
    ELSE IF AnyMatch(CATEGORY_PATTERNS, txt) THEN ADD_CATEGORY
    ELSE IF AnyMatch(QUERY_PATTERNS, txt) THEN QUERY_EXPENSES
    ELSE IF AnyMatch(EXPENSE_PATTERNS, txt) THEN ADD_EXPENSE
    ELSE IF AmountTruthy(txt) THEN ADD_EXPENSE
    ELSE UNKNOWN

\* extract_description that gives up: always absent
extract_description_absent(txt) == None

\* the text after the amount patterns, the verbs and prepositions and the
\* time words are deleted, whitespace collapsed and stripped; None when empty
extract_description(txt) ==
    LET d1 == ReSub(<<ReSymbol, Star(ReSpace), ReNumber>>, "", txt, FALSE)
        d2 == ReSub(<<ReNumber, Star(ReSpace), ReSymbol>>, "", d1, FALSE)
        d3 == ReSub(<<Alt(<<LitOpt("rs", "."), Lit("inr"), Lit("usd"), Lit("eur")>>),
                      Star(ReSpace), Plus(ReDigit)>>, "", d2, TRUE)
        d4 == ReSub(<<Plus(ReDigit), Star(ReSpace),
                      Alt(<<LitOpt("rs", "."), LitOpt("rupee", "s"), LitOpt("dollar", "s")>>)>>,
                    "", d3, TRUE)
        d5 == ReSub(<<WordB, LitAlt(<<"spent", "paid", "bought", "for", "on">>), WordB>>,
                    "", d4, TRUE)
        d6 == ReSub(<<WordB, LitAlt(<<"today", "yesterday", "last week", "this week",
                                      "this month">>), WordB>>, "", d5, TRUE)
        desc == StrStrip(ReSub(<<Plus(ReSpace)>>, " ", d6, FALSE))
    IN IF desc # "" THEN Some(desc) ELSE None

\* the capitalized name of the first category, in table order, one of whose
\* keywords occurs in the text
detect_category(txt) ==
    LET hits == {k \in 1..Len(CATEGORY_KEYWORDS) :
                    \E j \in 1..Len(CATEGORY_KEYWORDS[k][2]) :
                        Contains(txt, CATEGORY_KEYWORDS[k][2][j])}
    IN IF hits = {} THEN None
       ELSE Some(Capitalize(CATEGORY_KEYWORDS[CHOOSE k \in hits : \A j \in hits : k <= j][1]))

\* calendar dates are <<year, month, day>>
IsLeap(y) == (y % 4 = 0 /\ y % 100 # 0) \/ y % 400 = 0
DaysInMonth(y, m) ==
    IF m = 2 THEN (IF IsLeap(y) THEN 29 ELSE 28)
    ELSE IF m \in {4, 6, 9, 11} THEN 30 ELSE 31
\* date(y, m, d) raises ValueError unless the day exists
ValidDate(y, m, d) == m \in 1..12 /\ d >= 1 /\ d <= DaysInMonth(y, m)
\* d - timedelta(days=1)
PrevDay(d) ==
    IF d[3] > 1 THEN <<d[1], d[2], d[3] - 1>>
    ELSE IF d[2] > 1 THEN <<d[1], d[2] - 1, DaysInMonth(d[1], d[2] - 1)>>
    ELSE <<d[1] - 1, 12, 31>>

MonthNames == <<"jan", "feb", "mar", "apr", "may", "jun", "jul", "aug", "sep", "oct", "nov", "dec">>

\* yesterday's date when the text says so, else the date of the first
\* "<day>[st|nd|rd|th] [of] <month>" match if it has a month and is valid
extract_date(txt, now) ==
    IF Contains(txt, "yesterday") THEN Some(PrevDay(now))
    ELSE LET match == Search(<<Rep(ReDigit, 1, 2),
                               Opt(LitAlt(<<"st", "nd", "rd", "th">>)),
                               Star(ReSpace),
                               Opt(Cat(<<Lit("of"), Star(ReSpace)>>)),
                               Opt(LitAlt(MonthNames))>>, txt, TRUE)
         IN IF match = <<>> THEN None
            ELSE LET day == IntOf(Group(txt, match, 1), 0)
                     month_str == StrLower(Group(txt, match, 5))
                 IN IF month_str = "" THEN None
                    ELSE LET month == CHOOSE m \in 1..12 : MonthNames[m] = month_str
                         IN IF ValidDate(now[1], month, day)
                            THEN Some(<<now[1], month, day>>) ELSE None

\* the first range of TIME_PATTERNS whose pattern matches
extract_time_range(txt) ==
    LET hits == {k \in 1..Len(TIME_PATTERNS) : Search(TIME_PATTERNS[k][2], txt, TRUE) # <<>>}
    IN IF hits = {} THEN None
       ELSE Some(TIME_PATTERNS[CHOOSE k \in hits : \A j \in hits : k <= j][1])

RECURSIVE SplitFrom(_, _, _)
\* re.split(pattern, s) for a pattern without groups or empty matches
SplitFrom(parts, s, i) ==
    LET b == SearchIn(parts, s, i, Len(s) + 1)
    IN IF b = <<>> THEN <<SubSeq(s, i, Len(s))>>
       ELSE <<SubSeq(s, i, b[1] - 1)>> \o SplitFrom(parts, s, b[Len(b)])

ReName == Cat(<<ReUpper, Plus(ReLower)>>)
ReSeparator == <<Star(ReSpace), Alt(<<Lit(","), Lit("and")>>), Star(ReSpace)>>

\* _extract_split_info that counts the named people only, not the user
extract_split_info_names_only(txt) ==
    LET m1 == Search(<<LitAlt(<<"split", "divide">>), Star(ReSpace),
                       Opt(LitAlt(<<"with", "among", "between">>)), Star(ReSpace),
                       Plus(ReDigit), Star(ReSpace), Lit("people")>>, txt, TRUE)
        m2 == Search(<<Lit("with"), Plus(ReSpace),
                       Cat(<<ReName, Star(Cat(ReSeparator \o <<ReName>>))>>)>>, txt, FALSE)
    IN IF m1 # <<>> THEN <<Some(IntOf(Group(txt, m1, 5), 0)), None>>
       ELSE IF m2 # <<>>
       THEN LET people == SplitFrom(ReSeparator, Group(txt, m2, 3), 1)
            IN <<Some(Len(people)), Some(people)>>
       ELSE <<None, None>>

\* <<split_count, split_people>>
extract_split_info(txt) ==
    LET m1 == Search(<<LitAlt(<<"split", "divide">>), Star(ReSpace),
                       Opt(LitAlt(<<"with", "among", "between">>)), Star(ReSpace),
                       Plus(ReDigit), Star(ReSpace), Lit("people")>>, txt, TRUE)
        m2 == Search(<<Lit("with"), Plus(ReSpace),
                       Cat(<<ReName, Star(Cat(ReSeparator \o <<ReName>>))>>)>>, txt, FALSE)
    IN IF m1 # <<>> THEN <<Some(IntOf(Group(txt, m1, 5), 0)), None>>
       ELSE IF m2 # <<>>
       THEN LET people == SplitFrom(ReSeparator, Group(txt, m2, 3), 1)
            IN <<Some(Len(people) + 1), Some(people)>>
       ELSE <<None, None>>


\* _extract_person_name that only knows "from <Name>" and "by <Name>"
extract_person_name_from_only(txt) ==
    LET m2 == Search(<<LitAlt(<<"from", "by">>), Plus(ReSpace), ReName>>, txt, FALSE)
    IN IF m2 # <<>> THEN Some(Group(txt, m2, 3)) ELSE None

extract_person_name(txt) ==
    LET m1 == Search(<<ReName, Plus(ReSpace), LitAlt(<<"paid", "settled", "cleared">>)>>,
                     txt, FALSE)
        m2 == Search(<<LitAlt(<<"from", "by">>), Plus(ReSpace), ReName>>, txt, FALSE)
    IN IF m1 # <<>> THEN Some(Group(txt, m1, 1))
       ELSE IF m2 # <<>> THEN Some(Group(txt, m2, 3))
       ELSE None


\* parse that runs the extractors on a literal help command as well
parse_help_extracted(txt, now) ==
    LET text_lower == StrStrip(StrLower(txt))
        intent == IF text_lower \in {"help", "?", "commands"} THEN HELP
                  ELSE detect_intent(text_lower)
        split == IF intent = SPLIT_PAYMENT THEN extract_split_info(txt) ELSE <<None, None>>
    IN [intent |-> intent,
        amount |-> parse_amount(txt),
        currency |-> detect_currency(txt),
        description |-> extract_description(txt),
        category_hint |-> detect_category(text_lower),
        expense_date |-> extract_date(text_lower, now),
        time_range |-> extract_time_range(text_lower),
        split_count |-> split[1],
        split_people |-> split[2],
        person_name |-> IF intent \in {SETTLE_DEBT, CHECK_DEBTS}
                        THEN extract_person_name(txt) ELSE None,
        raw_text |-> txt]

\* TextParser.parse: the ParsedMessage for txt when date.today() is now
parse(txt, now) ==
    LET text_lower == StrStrip(StrLower(txt))
        result == [intent |-> UNKNOWN, amount |-> None, currency |-> "INR",
                   description |-> None, category_hint |-> None, expense_date |-> None,
                   split_count |-> None, split_people |-> None, person_name |-> None,
                   time_range |-> None, raw_text |-> txt]
    IN IF text_lower \in {"help", "?", "commands"}
       THEN [result EXCEPT !.intent = HELP]
       ELSE LET intent == detect_intent(text_lower)
                split == IF intent = SPLIT_PAYMENT THEN extract_split_info(txt)
                         ELSE <<None, None>>
            IN [intent |-> intent,
                amount |-> parse_amount(txt),
                currency |-> detect_currency(txt),
                description |-> extract_description(txt),
                category_hint |-> detect_category(text_lower),
                expense_date |-> extract_date(text_lower, now),
                time_range |-> extract_time_range(text_lower),
                split_count |-> split[1],
                split_people |-> split[2],
                person_name |-> IF intent \in {SETTLE_DEBT, CHECK_DEBTS}
                                THEN extract_person_name(txt) ELSE None,
                raw_text |-> txt]

\* ------------------------------------------------------------------------
\* Values as the database and the agents see them
\* ------------------------------------------------------------------------

\* str.title(): a letter is upper-cased after a non-letter, lower-cased after
\* a letter
Title(s) ==
    IF s = "" THEN ""
    ELSE ConcatAll([k \in 1..Len(s) |->
                       LET c == CharAt(s, k)
                           cased(x) == IsUpper(x) \/ IsLower(x)
                       IN IF ~cased(c) THEN c
                          ELSE IF k > 1 /\ cased(CharAt(s, k - 1)) THEN LowerChar(c)
                          ELSE UpperChar(c)], 1, Len(s))

\* CategoryAgent.extract_category_name
extract_category_name(txt) ==
    LET text_lower == StrStrip(StrLower(txt))
        pattern(verb) == <<Lit(verb), Plus(ReSpace), Lit("category"), Plus(ReSpace),
                           Plus(ReAny)>>
        m(verb) == Search(pattern(verb), text_lower, FALSE)
        name(verb) == Title(StrStrip(Group(text_lower, m(verb), 5)))
    IN IF m("add") # <<>> THEN Some(name("add"))
       ELSE IF m("new") # <<>> THEN Some(name("new"))
       ELSE IF m("create") # <<>> THEN Some(name("create"))
       ELSE None

\* the digits and the scale of the Numeric(12, 2) columns
NumericPrecision == 12
NumericScale == 2

\* the value a Numeric(12, 2) column stores for d: rounded to two places,
\* half away from zero
ToNumeric(d) ==
    IF d.e >= 0 - NumericScale THEN d
    ELSE LET c == StripLead(d.c)
             drop == 0 - NumericScale - d.e
             kept == IF Len(c) > drop THEN SubSeq(c, 1, Len(c) - drop) ELSE <<>>
             first == IF Len(c) > drop THEN c[Len(c) - drop + 1]
                      ELSE IF Len(c) = drop THEN c[1] ELSE 0
         IN [c |-> StripLead(IF first >= 5 THEN IncDigits(kept) ELSE kept),
             e |-> 0 - NumericScale]

\* does the column accept d (otherwise the flush raises a numeric overflow)
NumericFits(d) ==
    LET q == ToNumeric(d)
    IN Len(StripLead(q.c)) + q.e <= NumericPrecision - NumericScale

DigitStr(ds) == IF ds = <<>> THEN ""
                ELSE ConcatAll([k \in 1..Len(ds) |-> SubSeq(DigitChars, ds[k] + 1, ds[k] + 1)],
                               1, Len(ds))

ZeroStr(n) == DigitStr(Zeros(n))

\* str(d) for a Decimal with exponent <= 0 (every parsed amount)
DecStr(d) ==
    LET ds == IF d.c = <<>> THEN <<0>> ELSE d.c
        leftdigits == Len(ds) + d.e
    IN IF leftdigits > -6
       THEN (IF leftdigits <= 0 THEN "0" ELSE DigitStr(SubSeq(ds, 1, leftdigits)))
            \o (IF d.e = 0 THEN ""
                ELSE "." \o (IF leftdigits < 0 THEN ZeroStr(0 - leftdigits) ELSE "")
                         \o DigitStr(SubSeq(ds, MaxInt(leftdigits, 0) + 1, Len(ds))))
       ELSE DigitStr(<<ds[1]>>)
            \o (IF Len(ds) > 1 THEN "." \o DigitStr(Tail(ds)) ELSE "")
            \o "E-" \o (LET x == 1 - leftdigits
                        IN DigitStr(IF x < 10 THEN <<x>> ELSE <<x \div 10, x % 10>>))

\* date.toordinal and date.weekday (Monday is 0)
DaysBeforeYear(y) == (y - 1) * 365 + (y - 1) \div 4 - (y - 1) \div 100 + (y - 1) \div 400
RECURSIVE DaysBeforeMonth(_, _)
DaysBeforeMonth(y, m) == IF m = 1 THEN 0 ELSE DaysBeforeMonth(y, m - 1) + DaysInMonth(y, m - 1)
ToOrdinal(d) == DaysBeforeYear(d[1]) + DaysBeforeMonth(d[1], d[2]) + d[3]
Weekday(d) == (ToOrdinal(d) + 6) % 7

RECURSIVE MinusDays(_, _)
\* d - timedelta(days=n)
MinusDays(d, n) == IF n = 0 THEN d ELSE MinusDays(PrevDay(d), n - 1)

\* a <= b on dates
DateLE(a, b) == ToOrdinal(a) <= ToOrdinal(b)


\* _get_date_range whose default is today alone
get_date_range_default_today(time_range, now) ==
    LET first == <<now[1], now[2], 1>>
    IN IF time_range = Some("today") THEN <<now, now>>
       ELSE IF time_range = Some("yesterday") THEN <<PrevDay(now), PrevDay(now)>>
       ELSE IF time_range = Some("this_week") THEN <<MinusDays(now, Weekday(now)), now>>
       ELSE IF time_range = Some("last_week")
       THEN LET end == MinusDays(now, Weekday(now) + 1)
            IN <<MinusDays(end, 6), end>>
       ELSE IF time_range = Some("this_month") THEN <<first, now>>
       ELSE IF time_range = Some("last_month")
       THEN LET end == PrevDay(first)
            IN <<<<end[1], end[2], 1>>, end>>
       ELSE <<now, now>>

\* QueryAgent._get_date_range: <<start, end>>
get_date_range(time_range, now) ==
    LET first == <<now[1], now[2], 1>>
    IN IF time_range = Some("today") THEN <<now, now>>
       ELSE IF time_range = Some("yesterday") THEN <<PrevDay(now), PrevDay(now)>>
       ELSE IF time_range = Some("this_week") THEN <<MinusDays(now, Weekday(now)), now>>
       ELSE IF time_range = Some("last_week")
       THEN LET end == MinusDays(now, Weekday(now) + 1)
            IN <<MinusDays(end, 6), end>>
       ELSE IF time_range = Some("this_month") THEN <<first, now>>
       ELSE IF time_range = Some("last_month")
       THEN LET end == PrevDay(first)
            IN <<<<end[1], end[2], 1>>, end>>
       ELSE <<first, now>>

\* ------------------------------------------------------------------------
\* The database (the rows the session has flushed) and the crud functions.
\* A category is referred to by its name, an expense by its creation number.
\* ------------------------------------------------------------------------

\* crud.create_user: the categories every user starts with
default_categories == <<"Food", "Transport", "Shopping", "Bills", "Entertainment",
                        "Health", "Other">>

\* the user the SupervisorAgent was constructed for
user == "u1"

\* the tables after create_user(user)
FreshDb ==
    [categories |-> {[user_id |-> user, name |-> default_categories[k], is_default |-> TRUE] :
                        k \in 1..Len(default_categories)},
     expenses |-> <<>>, splits |-> <<>>, debts |-> <<>>, created |-> 0]

\* crud.get_user_categories (the names)
get_user_categories(db, uid) == {c.name : c \in {x \in db.categories : x.user_id = uid}}

\* crud.get_category_by_name: the name compared case-insensitively
get_category_by_name(db, uid, name) ==
    LET found == {c \in db.categories : c.user_id = uid /\ StrLower(c.name) = StrLower(name)}
    IN IF found = {} THEN None ELSE Some((CHOOSE c \in found : TRUE).name)

\* crud.create_category
create_category(db, uid, name) ==
    [db EXCEPT !.categories = @ \cup {[user_id |-> uid, name |-> name, is_default |-> FALSE]}]

\* crud.create_expense; the row is appended in created_at order
create_expense(db, uid, amount, currency, description, category, source_type, expense_date, metadata) ==
    [db EXCEPT !.created = @ + 1,
               !.expenses = Append(@, [id |-> db.created + 1, user_id |-> uid,
                                       amount |-> ToNumeric(amount), currency |-> currency,
                                       description |-> description, category |-> category,
                                       source_type |-> source_type,
                                       expense_date |-> expense_date,
                                       metadata |-> metadata])]

\* crud.create_split: per_person = total_amount / total_people
create_split(db, expense_id, uid, total_people, user_paid, total_amount) ==
    LET per_person == DecDivInt(total_amount, total_people)
    IN [db EXCEPT !.splits = Append(@, [expense_id |-> expense_id, user_id |-> uid,
                                        total_people |-> total_people,
                                        per_person_amount |-> ToNumeric(per_person),
                                        user_paid |-> ToNumeric(user_paid),
                                        user_share |-> ToNumeric(per_person)])]

\* crud.create_debt
create_debt(db, uid, person_name, amount, currency, direction, related_expense_id) ==
    [db EXCEPT !.debts = Append(@, [user_id |-> uid, person_name |-> person_name,
                                    amount |-> ToNumeric(amount), currency |-> currency,
                                    direction |-> direction, is_settled |-> FALSE,
                                    related_expense_id |-> related_expense_id])]


\* the loop of create_split_expense leaving after the first person
create_debts_first_only(db, uid, people, amount, currency, expense_id) ==
    IF people = <<>> THEN db
    ELSE create_debt(db, uid, Head(people), amount, currency, "owes_me", expense_id)

RECURSIVE create_debts(_, _, _, _, _, _)
\* the loop of create_split_expense over split_people
create_debts(db, uid, people, amount, currency, expense_id) ==
    IF people = <<>> THEN db
    ELSE create_debts(create_debt(db, uid, Head(people), amount, currency, "owes_me",
                                  expense_id),
                      uid, Tail(people), amount, currency, expense_id)

\* the positions of a user's rows in a table
RowsOf(table, uid) == {k \in 1..Len(table) : table[k].user_id = uid}

\* the sequence without the elements at the positions in gone
RECURSIVE Without(_, _, _)
Without(seq, gone, k) ==
    IF k > Len(seq) THEN <<>>
    ELSE (IF k \in gone THEN <<>> ELSE <<seq[k]>>) \o Without(seq, gone, k + 1)

\* crud.delete_last_expense: the user's most recently created expense goes,
\* and with it (cascade) its split and its debts; <<db, expense or None>>
delete_last_expense(db, uid) ==
    LET mine == RowsOf(db.expenses, uid)
    IN IF mine = {} THEN <<db, None>>
       ELSE LET last == CHOOSE k \in mine : \A j \in mine : j <= k
                e == db.expenses[last]
            IN <<[db EXCEPT !.expenses = Without(@, {last}, 1),
                            !.splits = Without(@, {k \in 1..Len(@) : @[k].expense_id = e.id}, 1),
                            !.debts = Without(@, {k \in 1..Len(@) :
                                                     @[k].related_expense_id = Some(e.id)}, 1)],
                 Some(e)>>

\* crud.get_expense_summary: the count of the user's expenses in the
\* currency and the date range
summary_count(db, uid, start_date, end_date, currency) ==
    Cardinality({k \in RowsOf(db.expenses, uid) :
                    /\ db.expenses[k].currency = currency
                    /\ DateLE(start_date, db.expenses[k].expense_date)
                    /\ DateLE(db.expenses[k].expense_date, end_date)})

\* crud.get_user_debts(settled=False)
pending_debts(db, uid) == {k \in RowsOf(db.debts, uid) : ~db.debts[k].is_settled}


\* settle_debts_by_person comparing the names as written
settle_debts_by_person_same_case(db, uid, person_name) ==
    LET hit == {k \in {x \in 1..Len(db.debts) :
                          db.debts[x].user_id = uid /\ ~db.debts[x].is_settled} :
                   db.debts[k].person_name = person_name}
    IN <<[db EXCEPT !.debts = [k \in 1..Len(@) |->
                                  IF k \in hit THEN [@[k] EXCEPT !.is_settled = TRUE]
                                  ELSE @[k]]],
         Cardinality(hit)>>

\* crud.settle_debts_by_person: <<db, count>>
settle_debts_by_person(db, uid, person_name) ==
    LET hit == {k \in pending_debts(db, uid) :
                   StrLower(db.debts[k].person_name) = StrLower(person_name)}
    IN <<[db EXCEPT !.debts = [k \in 1..Len(@) |->
                                  IF k \in hit THEN [@[k] EXCEPT !.is_settled = TRUE]
                                  ELSE @[k]]],
         Cardinality(hit)>>


\* message.from_number
from_number == "+15550100"

\* the tables before the user exists
EmptyDb == [categories |-> {}, expenses |-> <<>>, splits |-> <<>>, debts |-> <<>>, created |-> 0]

\* encrypt_api_key: the stored text is not the key
encrypt_api_key(api_key) == "fernet:" \o api_key

\* crud.get_user_by_phone: None or the position of the row
get_user_by_phone(table, phone_number) ==
    LET found == {k \in 1..Len(table) : table[k].phone_number = phone_number}
    IN IF found = {} THEN None ELSE Some(CHOOSE k \in found : TRUE)

\* crud.create_user, the users table: a row without a key
create_user(table, phone_number) ==
    Append(table, [phone_number |-> phone_number, openai_api_key_encrypted |-> None])

\* crud.create_user, the default categories of the new user
create_default_categories(db0) ==
    [db0 EXCEPT !.categories = @ \cup FreshDb.categories]

\* crud.update_user_api_key on the row at position k
update_user_api_key(table, k, encrypted_key) ==
    [table EXCEPT ![k].openai_api_key_encrypted = Some(encrypted_key)]

\* str.startswith
StartsWith(s, prefix) == Len(s) >= Len(prefix) /\ SubSeq(s, 1, Len(prefix)) = prefix

\* the users table of a user who went through the onboarding
SetUpUsers == update_user_api_key(create_user(<<>>, from_number), 1, encrypt_api_key("sk-abc"))

\* ------------------------------------------------------------------------
\* The agents. An outcome is [db, response, raised]: the tables after the
\* call, the text returned (its fixed leading part; the amounts, names and
\* dates formatted into it are left out) and whether the call raised instead
\* of returning.
\* ------------------------------------------------------------------------
Returns(db, response) == [db |-> db, response |-> response, raised |-> FALSE]
Raises(db) == [db |-> db, response |-> "", raised |-> TRUE]

\* expense_date=parsed.expense_date or date.today()
DateOr(expense_date, now) == IF expense_date # None THEN The(expense_date) ELSE now


\* add_expense without its guard: an absent amount is stored as zero
add_expense_unguarded(db, parsed, source_type, now, detected) ==
    LET amount == IF parsed.amount = None THEN DecFromStr("0") ELSE The(parsed.amount)
        category == IF parsed.category_hint # None
                    THEN get_category_by_name(db, user, The(parsed.category_hint))
                    ELSE None
    IN IF ~NumericFits(amount) THEN Raises(db)
       ELSE Returns(create_expense(db, user, amount, parsed.currency, parsed.description,
                                   category, source_type, DateOr(parsed.expense_date, now),
                                   None),
                    "Added expense")

\* ExpenseAgent.add_expense; detected is the answer of
\* _detect_category_with_llm (None when the call fails or names no category)
add_expense(db, parsed, source_type, now, detected) ==
    IF parsed.amount = None
    THEN Returns(db, "I couldn't detect an amount. Please try again with a clear amount like '500' or '$20'.")
    ELSE LET by_hint == IF parsed.category_hint # None
                        THEN get_category_by_name(db, user, The(parsed.category_hint))
                        ELSE None
             category == IF by_hint = None /\ parsed.description # None /\ detected # None
                         THEN get_category_by_name(db, user, The(detected))
                         ELSE by_hint
         IN IF ~NumericFits(The(parsed.amount)) THEN Raises(db)
            ELSE Returns(create_expense(db, user, The(parsed.amount), parsed.currency,
                                        parsed.description, category, source_type,
                                        DateOr(parsed.expense_date, now), None),
                         "Added expense")

\* the answers _detect_category_with_llm can give in add_expense
DetectedCategories(db, parsed) ==
    IF parsed.amount # None /\ parsed.description # None
       /\ (parsed.category_hint = None
           \/ get_category_by_name(db, user, The(parsed.category_hint)) = None)
    THEN {None} \cup {Some(c) : c \in get_user_categories(db, user)}
    ELSE {None}

\* ExpenseAgent.delete_last
delete_last(db) ==
    LET r == delete_last_expense(db, user)
    IN IF r[2] # None THEN Returns(r[1], "Deleted last expense")
       ELSE Returns(r[1], "No expenses found to delete.")

\* QueryAgent.get_summary; the category it looks up is not passed on to
\* crud.get_expense_summary
get_summary(db, parsed, now) ==
    LET range == get_date_range(parsed.time_range, now)
    IN IF summary_count(db, user, range[1], range[2], parsed.currency) = 0
       THEN Returns(db, "No expenses found")
       ELSE Returns(db, "*Spending Summary*")

\* SplitCalc with the share rounded to two places before it is subtracted
SplitCalc_share_rounded(parsed) ==
    IF parsed.amount = None \/ (parsed.split_count = None /\ parsed.split_people = None)
    THEN None
    ELSE LET count == IF parsed.split_count = None /\ parsed.split_people \notin {None, Some(<<>>)}
                      THEN Some(Len(The(parsed.split_people)) + 1)
                      ELSE parsed.split_count
             total_amount == The(parsed.amount)
         IN IF count = None \/ count = Some(0) THEN None
            ELSE LET split_count == The(count)
                     per_person == DecDivInt(total_amount, split_count)
                 IN Some([total_amount |-> total_amount, split_count |-> split_count,
                          per_person |-> per_person, user_share |-> per_person,
                          others_owe |-> DecSub(total_amount, ToNumeric(per_person))])

\* the locals of SplitAgent.create_split_expense once the amounts are
\* calculated; None before
SplitCalc(parsed) ==
    IF parsed.amount = None \/ (parsed.split_count = None /\ parsed.split_people = None)
    THEN None
    ELSE LET count == IF parsed.split_count = None /\ parsed.split_people \notin {None, Some(<<>>)}
                      THEN Some(Len(The(parsed.split_people)) + 1)
                      ELSE parsed.split_count
             total_amount == The(parsed.amount)
         IN IF count = None \/ count = Some(0) THEN None
            ELSE LET split_count == The(count)
                     per_person == DecDivInt(total_amount, split_count)
                 IN Some([total_amount |-> total_amount, split_count |-> split_count,
                          per_person |-> per_person, user_share |-> per_person,
                          others_owe |-> DecSub(total_amount, per_person)])

\* SplitAgent.create_split_expense
create_split_expense(db, parsed, source_type, now) ==
    IF parsed.amount = None
    THEN Returns(db, "I couldn't detect an amount. Please specify how much was spent.")
    ELSE IF parsed.split_count = None /\ parsed.split_people = None
    THEN Returns(db, "Please specify how many people to split with or name them.")
    ELSE IF SplitCalc(parsed) = None
    THEN Raises(db)  \* Decimal(None), or total_amount / Decimal(0)
    ELSE LET c == The(SplitCalc(parsed))
             category == IF parsed.category_hint # None
                         THEN get_category_by_name(db, user, The(parsed.category_hint))
                         ELSE None
             db1 == create_expense(db, user, c.user_share, parsed.currency,
                                   parsed.description, category, source_type,
                                   DateOr(parsed.expense_date, now),
                                   Some([original_amount |-> DecStr(c.total_amount),
                                         split_count |-> c.split_count]))
             id == db1.created
             db2 == create_split(db1, id, user, c.split_count, c.total_amount,
                                 c.total_amount)
             people == IF parsed.split_people # None THEN The(parsed.split_people) ELSE <<>>
         IN IF ~NumericFits(c.user_share) THEN Raises(db)
            ELSE IF ~NumericFits(c.total_amount) THEN Raises(db1)
            ELSE Returns(create_debts(db2, user, people, c.per_person, parsed.currency,
                                      Some(id)),
                         "Split expense created!")

\* SplitAgent.get_debt_summary
get_debt_summary(db) ==
    IF pending_debts(db, user) = {} THEN Returns(db, "You have no pending debts!")
    ELSE Returns(db, "*Debt Summary*")

\* SplitAgent.settle_debt
settle_debt(db, person_name) ==
    LET r == settle_debts_by_person(db, user, person_name)
    IN IF r[2] > 0 THEN Returns(r[1], "Settled") ELSE Returns(r[1], "No pending debts found")

\* CategoryAgent.list_categories
list_categories(db) ==
    IF get_user_categories(db, user) = {}
    THEN Returns(db, "No categories found. This shouldn't happen!")
    ELSE Returns(db, "*Your Categories*")

\* CategoryAgent.add_category
add_category(db, name) ==
    IF get_category_by_name(db, user, name) # None THEN Returns(db, "Category already exists!")
    ELSE Returns(create_category(db, user, Title(name)), "Added category")

\* whatsapp.handlers.get_help_message
get_help_message == "*Thuk Commands*"

\* ------------------------------------------------------------------------
\* The messages
\* ------------------------------------------------------------------------

\* the largest N of the "... N people" messages
MaxPeople == 4

\* str(n) for 0 <= n < 100
CountStr(n) == DigitStr(IF n < 10 THEN <<n>> ELSE <<n \div 10, n % 10>>)

\* the literal help commands and near misses
HelpTexts == {"help", "Help", " HELP ", "?", "commands", "help me", "help?"}

\* the examples of the help message and of the fallback prompt, greetings,
\* zero amounts
ExampleTexts ==
    {"Spent 500 on food", "Paid $20 for coffee yesterday", "2000 dinner split with 4 people",
     "1000 movie with Rahul and Priya", "Who owes me money?", "Rahul paid me back",
     "How much did I spend today?", "Show this month's expenses", "Food expenses this week",
     "Show my categories", "Add category Subscriptions", "Delete last expense",
     "2000 split with 4 people", "split 2000 with 4 people", "good morning", "hello there",
     "thanks", "yesterday", "see you next week", "", "   ", "movie night",
     "0", "0.00", "$0", "spent 0 on food", "Rs 0", "bought 0 apples", "500", "12.50",
     "uber 250", "Spent 500 on 15 dec", "spent 99999999999 on car", "9999999999.995",
     "add category", "new category gym fees", "create category Food", "received from Priya",
     "settled by Amit", "cleared", "what did i spend last month", "summary",
     "lunch 0.004", "1,200 rent", "20 dollars",
     "spent 2000 split with 4 people", "$20 and ₹500", "₹500 and $20",
     "2 coffees for $20", "paid 20$ for 3 coffees", "€15 taxi", "taxi 15€",
     "burgers $20", "expense 500 taxi", "taxi cost 300", "charged 40 for parking",
     "tell me the cost", "lunch 15 dec", "30 feb", "paid 200 on 30 feb",
     "15th of dec", "taxi on 0 jan", "lunch 20 on 5 mar", "5 mar lunch 20",
     "$", "₹ ,.", "99 dec", "0 jan", "29 feb", "31 apr", "1,,2.", "000", "7th of",
     "50 euros", "20 pounds", "100 dirhams", "usd 20", "5 yen", "Rs 250 chai",
     "3 dollar pizza", "20 dollars or ₹5",
     "expenses last week", "Show last month", "spending this week", "summary this month"}

\* one phrase (some groups: two) for every pattern group of the classifier,
\* a number, a zero and a word that no group knows
KeywordPhrases ==
    {"delete", "undo", "paid back", "settled", "who owes", "pending", "split", "among",
     "with 3 people", "my categories", "add category gym", "show", "expenses", "how much",
     "spent", "cost", "500", "0", "hello"}

\* every ordered pair of keyword phrases
PairTexts == {a \o " " \o b : a, b \in KeywordPhrases}

\* "split"/"divide" and "N people", with different words in between
SplitCountTexts ==
    {pre \o kw \o mid \o CountStr(n) \o " people" :
        pre \in {"", "2000 dinner "},
        kw \in {"split", "divide", "Split"},
        mid \in {" ", " with ", " among ", " between ", " 2000 with ", " the bill with ",
                 " it "},
        n \in 0..MaxPeople}

\* the divisors and the totals of the split calculation: small ones, ones
\* that do not divide evenly, and ones of 27, 28 and 29 significant digits
SplitCounts == {2, 3, 4, 6, 7, 11}
Totals ==
    {"1", "10", "20", "100", "1000", "100.50", "0.01", "1,000.55", "2000", "9999999999.99",
     "99999999999", "123456789012345678901234567", "999999999999999999999999999",
     "100000000000000000000000000.5", "4328699911515148749613790985",
     "9999999999999999999999999999", "10000000000000000000000000001",
     "20000000000000000000000000001", "74556837989273647072614101736"}
TotalTexts ==
    {t \o " split with " \o CountStr(n) \o " people" : t \in Totals, n \in SplitCounts}

\* splits with named people
PeopleTexts ==
    {pre \o "with " \o people :
        pre \in {"", "1000 movie ", "split 900 ", "300 cab share ", "divide 100 dinner "},
        people \in {"Rahul", "Rahul and Priya", "Rahul, Priya and Amit", "Anand and Ravi",
                    "rahul and priya", "Rahul and 2 people"}}

Texts == HelpTexts \cup ExampleTexts \cup KeywordPhrases \cup PairTexts
         \cup SplitCountTexts \cup TotalTexts \cup PeopleTexts

\* date.today() on the day of the message
Todays == {<<2024, 3, 1>>}

\* ------------------------------------------------------------------------
\* SupervisorAgent.process: one message through the graph
\* ------------------------------------------------------------------------
VARIABLES
    today,          \* date.today()
    user_message,   \* state["user_message"]
    parsed,         \* state["parsed"]: None or the ParsedMessage
    response,       \* state["response"]
    db,             \* the tables
    pc,             \* the node about to run, "END", "returned" or "raised"
    visited,        \* the nodes that have run, in order
    llm_calls,      \* calls of self.llm.ainvoke
    calc,           \* the amounts create_split_expense calculated, or None
    result,         \* what process returned to its caller, or None
    users,          \* the users table
    inbox,          \* the messages the phone number has still to send
    calls           \* the calls of handle_incoming_message in flight

vars == <<today, user_message, parsed, response, db, pc, visited, llm_calls, calc, result,
          users, inbox, calls>>

Handlers == {"expense", "expense_delete", "query", "split", "debts", "settle",
             "category_add", "category_list", "help", "llm_fallback"}

\* initial_state of process, for a user that create_user has set up
Init ==
    /\ today \in Todays
    /\ user_message \in Texts
    /\ parsed = None
    /\ response = ""
    /\ db = FreshDb
    /\ pc = "router"
    /\ visited = <<>>
    /\ llm_calls = 0
    /\ calc = None
    /\ result = None
    /\ users = SetUpUsers
    /\ inbox = <<>>
    /\ calls = <<>>

\* get_next_agent with two entries of the routing dict exchanged
get_next_agent_exchanged(p) ==
    IF p = None THEN "llm_fallback"
    ELSE LET intent == The(p).intent
         IN CASE intent = ADD_EXPENSE -> "expense"
              [] intent = DELETE_EXPENSE -> "expense_delete"
              [] intent = QUERY_EXPENSES -> "query"
              [] intent = SPLIT_PAYMENT -> "split"
              [] intent = CHECK_DEBTS -> "settle"
              [] intent = SETTLE_DEBT -> "debts"
              [] intent = ADD_CATEGORY -> "category_add"
              [] intent = LIST_CATEGORIES -> "category_list"
              [] intent = HELP -> "help"
              [] OTHER -> "llm_fallback"

\* SupervisorAgent.get_next_agent
get_next_agent(p) ==
    IF p = None THEN "llm_fallback"
    ELSE LET intent == The(p).intent
         IN CASE intent = ADD_EXPENSE -> "expense"
              [] intent = DELETE_EXPENSE -> "expense_delete"
              [] intent = QUERY_EXPENSES -> "query"
              [] intent = SPLIT_PAYMENT -> "split"
              [] intent = CHECK_DEBTS -> "debts"
              [] intent = SETTLE_DEBT -> "settle"
              [] intent = ADD_CATEGORY -> "category_add"
              [] intent = LIST_CATEGORIES -> "category_list"
              [] intent = HELP -> "help"
              [] intent = UNKNOWN -> "llm_fallback"
              [] OTHER -> "llm_fallback"


\* the router node handing the parser the lower-cased text
route_message_lowered ==
    /\ pc = "router"
    /\ parsed' = Some(parse(StrLower(user_message), today))
    /\ pc' = get_next_agent(parsed')
    /\ visited' = Append(visited, "router")
    /\ UNCHANGED <<today, user_message, response, db, llm_calls, calc, result,
                   users, inbox, calls>>

\* the router node and the conditional edge out of it
route_message ==
    /\ pc = "router"
    /\ parsed' = Some(parse(user_message, today))
    /\ pc' = get_next_agent(parsed')
    /\ visited' = Append(visited, "router")
    /\ UNCHANGED <<today, user_message, response, db, llm_calls, calc, result,
                   users, inbox, calls>>

\* a handler node that ran to the outcome o: its edge leads to END; an
\* exception leaves the graph and process
Finish(node, o) ==
    /\ visited' = Append(visited, node)
    /\ db' = o.db
    /\ IF o.raised THEN pc' = "raised" /\ response' = response
       ELSE pc' = "END" /\ response' = o.response
    /\ UNCHANGED <<today, user_message, parsed, result, users, inbox, calls>>

handle_expense ==
    /\ pc = "expense"
    /\ \E detected \in DetectedCategories(db, The(parsed)) :
          Finish("expense", add_expense(db, The(parsed), "text", today, detected))
    /\ UNCHANGED <<llm_calls, calc>>

handle_expense_delete ==
    /\ pc = "expense_delete"
    /\ Finish("expense_delete", delete_last(db))
    /\ UNCHANGED <<llm_calls, calc>>

handle_query ==
    /\ pc = "query"
    /\ Finish("query", get_summary(db, The(parsed), today))
    /\ UNCHANGED <<llm_calls, calc>>

handle_split ==
    /\ pc = "split"
    /\ Finish("split", create_split_expense(db, The(parsed), "text", today))
    /\ calc' = SplitCalc(The(parsed))
    /\ UNCHANGED llm_calls

handle_debts ==
    /\ pc = "debts"
    /\ Finish("debts", get_debt_summary(db))
    /\ UNCHANGED <<llm_calls, calc>>

handle_settle ==
    /\ pc = "settle"
    /\ Finish("settle",
              IF parsed # None /\ The(parsed).person_name \notin {None, Some("")}
              THEN settle_debt(db, The(The(parsed).person_name))
              ELSE Returns(db, "Please specify who paid you back (e.g., 'Rahul paid me back')."))
    /\ UNCHANGED <<llm_calls, calc>>

handle_category_add ==
    /\ pc = "category_add"
    /\ LET name == extract_category_name(user_message)
       IN Finish("category_add",
                 IF name \notin {None, Some("")} THEN add_category(db, The(name))
                 ELSE Returns(db, "Please specify a category name (e.g., 'add category Subscriptions')."))
    /\ UNCHANGED <<llm_calls, calc>>

handle_category_list ==
    /\ pc = "category_list"
    /\ Finish("category_list", list_categories(db))
    /\ UNCHANGED <<llm_calls, calc>>

handle_help ==
    /\ pc = "help"
    /\ Finish("help", Returns(db, get_help_message))
    /\ UNCHANGED <<llm_calls, calc>>

\* handle_llm_fallback when self.llm.ainvoke answers
handle_llm_fallback ==
    /\ pc = "llm_fallback"
    /\ llm_calls' = llm_calls + 1
    /\ Finish("llm_fallback", Returns(db, "<response.content>"))
    /\ UNCHANGED calc

\* handle_llm_fallback when self.llm.ainvoke raises (network, API error):
\* nothing in the handler or in process catches it
handle_llm_fallback_fails ==
    /\ pc = "llm_fallback"
    /\ llm_calls' = llm_calls + 1
    /\ Finish("llm_fallback", Raises(db))
    /\ UNCHANGED calc

\* process returns result["response"]
process_returns ==
    /\ pc = "END"
    /\ pc' = "returned"
    /\ result' = Some(response)
    /\ UNCHANGED <<today, user_message, parsed, response, db, visited, llm_calls, calc,
                   users, inbox, calls>>

Next ==
    \/ route_message
    \/ handle_expense
    \/ handle_expense_delete
    \/ handle_query
    \/ handle_split
    \/ handle_debts
    \/ handle_settle
    \/ handle_category_add
    \/ handle_category_list
    \/ handle_help
    \/ handle_llm_fallback
    \/ handle_llm_fallback_fails
    \/ process_returns

Spec == Init /\ [][Next]_vars


\* ------------------------------------------------------------------------
\* Queries: a user who has stored expenses asks for a summary, on different
\* days
\* ------------------------------------------------------------------------

\* the days of the queries: a first and a last day of a month and of a year,
\* a leap day, a Monday, a Sunday, days in the middle of a week and a month
QueryDays ==
    {<<2024, 3, 1>>, <<2024, 3, 4>>, <<2024, 3, 10>>, <<2024, 3, 15>>, <<2024, 2, 29>>,
     <<2024, 1, 1>>, <<2023, 12, 31>>, <<2025, 1, 5>>}

\* expenses a user may have stored: <<amount, currency, category, date>>
StoredExpenses ==
    << <<"100", "INR", Some("Food"), <<2024, 3, 5>> >>,
       <<"50", "INR", Some("Transport"), <<2024, 3, 12>> >>,
       <<"80.50", "INR", Some("Food"), <<2024, 2, 20>> >>,
       <<"20", "USD", None, <<2024, 3, 15>> >> >>

RECURSIVE StoreExpenses(_, _, _)
\* the tables after create_expense for the stored expenses at the positions
\* in chosen, from the k-th on
StoreExpenses(db0, chosen, k) ==
    IF k > Len(StoredExpenses) THEN db0
    ELSE LET e == StoredExpenses[k]
         IN StoreExpenses(IF k \in chosen
                          THEN create_expense(db0, user, DecFromStr(e[1]), e[2], None, e[3],
                                              "text", e[4], None)
                          ELSE db0,
                          chosen, k + 1)

QueryDbs == {StoreExpenses(FreshDb, chosen, 1) : chosen \in SUBSET (1..Len(StoredExpenses))}

QueryTexts ==
    {"How much did I spend today?", "Show this month's expenses", "Food expenses this week",
     "summary", "what did i spend last month", "how much $ yesterday",
     "Transport expenses", "list expenses last week"}

QueryInit ==
    /\ today \in QueryDays
    /\ user_message \in QueryTexts
    /\ parsed = None
    /\ response = ""
    /\ db \in QueryDbs
    /\ pc = "router"
    /\ visited = <<>>
    /\ llm_calls = 0
    /\ calc = None
    /\ result = None
    /\ users = SetUpUsers
    /\ inbox = <<>>
    /\ calls = <<>>

QueryNext == route_message \/ handle_query \/ process_returns

QuerySpec == QueryInit /\ [][QueryNext]_vars


\* ------------------------------------------------------------------------
\* Settlements: a user with stored debts says who paid back
\* ------------------------------------------------------------------------

\* debts that may be stored: <<user, person name, amount, settled>>
StoredDebts ==
    << <<user, "Rahul", "100", FALSE>>,
       <<user, "rahul", "50", FALSE>>,
       <<user, "Priya", "33.33", FALSE>>,
       <<"u2", "Rahul", "70", FALSE>>,
       <<user, "Rahul", "20", TRUE>> >>

RECURSIVE StoreDebts(_, _, _)
\* the tables after create_debt for the stored debts at the positions in
\* chosen, from the k-th on, the settled ones marked by crud.settle_debt
StoreDebts(db0, chosen, k) ==
    IF k > Len(StoredDebts) THEN db0
    ELSE LET d == StoredDebts[k]
             db1 == create_debt(db0, d[1], d[2], DecFromStr(d[3]), "INR", "owes_me", None)
             db2 == [db1 EXCEPT !.debts[Len(db1.debts)].is_settled = d[4]]
         IN StoreDebts(IF k \in chosen THEN db2 ELSE db0, chosen, k + 1)

DebtDbs == {StoreDebts(FreshDb, chosen, 1) : chosen \in SUBSET (1..Len(StoredDebts))}

SettleTexts ==
    {"Rahul paid me back", "Priya paid me back", "Amit paid me back", "rahul paid me back",
     "RAHUL paid me back", "paid me back", "settled", "received from Priya",
     "Rahul settled", "cleared by Rahul"}

SettleInit ==
    /\ today \in Todays
    /\ user_message \in SettleTexts
    /\ parsed = None
    /\ response = ""
    /\ db \in DebtDbs
    /\ pc = "router"
    /\ visited = <<>>
    /\ llm_calls = 0
    /\ calc = None
    /\ result = None
    /\ users = SetUpUsers
    /\ inbox = <<>>
    /\ calls = <<>>

SettleNext == route_message \/ handle_settle \/ process_returns

SettleSpec == SettleInit /\ [][SettleNext]_vars


\* ------------------------------------------------------------------------
\* handle_incoming_message: the messages of one phone number, one at a time
\* ------------------------------------------------------------------------

WelcomeMessage == "Welcome to Thuk - your expense tracker!"
ApiKeySaved == "API key saved successfully!"
SendApiKeyFirst == "Please send your OpenAI API key first."

\* message.body of a text message, None when the message has no body
Bodies ==
    {None, Some("hi"), Some("sk-abc"), Some(" sk-abc "), Some("sk"), Some("Spent 500 on food"),
     Some("help")}

MaxInbox == 3

Inboxes == UNION {[1..n -> Bodies] : n \in 1..MaxInbox}

\* message.body or ""
BodyOr(body) == IF body = None THEN "" ELSE The(body)

\* no call of handle_incoming_message is running
Idle == pc \in {"idle", "returned", "raised"}

\* handle_incoming_message returns text without entering the agent system
Reply(text) ==
    /\ response' = text
    /\ result' = Some(text)
    /\ pc' = "returned"
    /\ inbox' = Tail(inbox)
    /\ UNCHANGED <<today, user_message, parsed, visited, llm_calls, calc, calls>>

\* the number is unknown: the account is created and welcomed
handle_new_user ==
    /\ Idle
    /\ inbox # <<>>
    /\ get_user_by_phone(users, from_number) = None
    /\ users' = create_user(users, from_number)
    /\ db' = create_default_categories(db)
    /\ Reply(WelcomeMessage)

\* the user has no key and the message looks like one
handle_api_key ==
    /\ Idle
    /\ inbox # <<>>
    /\ LET found == get_user_by_phone(users, from_number)
           body == StrStrip(BodyOr(Head(inbox)))
       IN /\ found # None
          /\ users[The(found)].openai_api_key_encrypted = None
          /\ StartsWith(body, "sk-")
          /\ users' = update_user_api_key(users, The(found), encrypt_api_key(body))
    /\ db' = db
    /\ Reply(ApiKeySaved)

\* the user has no key and the message is not one
handle_no_api_key ==
    /\ Idle
    /\ inbox # <<>>
    /\ LET found == get_user_by_phone(users, from_number)
       IN /\ found # None
          /\ users[The(found)].openai_api_key_encrypted = None
          /\ ~StartsWith(StrStrip(BodyOr(Head(inbox))), "sk-")
    /\ UNCHANGED <<users, db>>
    /\ Reply(SendApiKeyFirst)

\* process_user_message without the test for a stored key
process_user_message_ungated ==
    /\ Idle
    /\ inbox # <<>>
    /\ get_user_by_phone(users, from_number) # None
    /\ user_message' = BodyOr(Head(inbox))
    /\ inbox' = Tail(inbox)
    /\ parsed' = None
    /\ response' = ""
    /\ pc' = "router"
    /\ visited' = <<>>
    /\ calc' = None
    /\ result' = None
    /\ UNCHANGED <<today, db, llm_calls, users, calls>>

\* the user is set up: the text goes to process_message, which starts the
\* graph on it
process_user_message ==
    /\ Idle
    /\ inbox # <<>>
    /\ LET found == get_user_by_phone(users, from_number)
       IN /\ found # None
          /\ users[The(found)].openai_api_key_encrypted # None
    /\ user_message' = BodyOr(Head(inbox))
    /\ inbox' = Tail(inbox)
    /\ parsed' = None
    /\ response' = ""
    /\ pc' = "router"
    /\ visited' = <<>>
    /\ calc' = None
    /\ result' = None
    /\ UNCHANGED <<today, db, llm_calls, users, calls>>

OnboardInit ==
    /\ today \in Todays
    /\ user_message = ""
    /\ parsed = None
    /\ response = ""
    /\ db = EmptyDb
    /\ pc = "idle"
    /\ visited = <<>>
    /\ llm_calls = 0
    /\ calc = None
    /\ result = None
    /\ users = <<>>
    /\ inbox \in Inboxes
    /\ calls = <<>>

OnboardNext ==
    \/ handle_new_user
    \/ handle_api_key
    \/ handle_no_api_key
    \/ process_user_message
    \/ route_message
    \/ handle_expense
    \/ handle_help
    \/ handle_llm_fallback
    \/ handle_llm_fallback_fails
    \/ process_returns

OnboardSpec == OnboardInit /\ [][OnboardNext]_vars


\* ------------------------------------------------------------------------
\* handle_incoming_message: several calls for one phone number in flight.
\* Each await of a database call is a step of its own; a flushed row is seen
\* by the other calls at once.
\* ------------------------------------------------------------------------

NCalls == 3

CallBodies == {Some("help"), Some("sk-abc"), Some("hi")}

\* a call that has not yet run: its message, its position, the user row it
\* loaded, state["parsed"] of its graph and the text it returned
NewCall(body) ==
    [body |-> body, pc |-> "get_user_by_phone", user |-> None, parsed |-> None,
     response |-> None]

\* call c moves on; nothing of the single-message run changes
CallStep(c, to, text) ==
    /\ calls' = [calls EXCEPT ![c].pc = to, ![c].response = text]
    /\ UNCHANGED <<today, user_message, parsed, response, pc, visited, llm_calls, calc, result,
                   inbox>>

\* user = await crud.get_user_by_phone(db, message.from_number)
call_get_user_by_phone(c) ==
    /\ calls[c].pc = "get_user_by_phone"
    /\ LET found == get_user_by_phone(users, from_number)
       IN calls' = [calls EXCEPT
                       ![c].user = IF found = None THEN None
                                   ELSE Some([row |-> The(found),
                                              openai_api_key_encrypted |->
                                                  users[The(found)].openai_api_key_encrypted]),
                       ![c].pc = IF found = None THEN "create_user" ELSE "has_user"]
    /\ UNCHANGED <<today, user_message, parsed, response, db, pc, visited, llm_calls, calc,
                   result, users, inbox>>

\* user is None: crud.create_user inserts the row and the call welcomes
call_create_user(c) ==
    /\ calls[c].pc = "create_user"
    /\ get_user_by_phone(users, from_number) = None
    /\ users' = create_user(users, from_number)
    /\ db' = create_default_categories(db)
    /\ CallStep(c, "returned", Some(WelcomeMessage))

\* user is None but the number has a row by now: phone_number is unique, the
\* flush of the INSERT raises IntegrityError and nothing catches it
call_create_user_fails(c) ==
    /\ calls[c].pc = "create_user"
    /\ get_user_by_phone(users, from_number) # None
    /\ UNCHANGED <<users, db>>
    /\ CallStep(c, "raised", None)

\* the loaded user has no key and the message looks like one
call_api_key(c) ==
    /\ calls[c].pc = "has_user"
    /\ The(calls[c].user).openai_api_key_encrypted = None
    /\ LET body == StrStrip(BodyOr(calls[c].body))
       IN /\ StartsWith(body, "sk-")
          /\ users' = update_user_api_key(users, The(calls[c].user).row, encrypt_api_key(body))
    /\ db' = db
    /\ CallStep(c, "returned", Some(ApiKeySaved))

\* the loaded user has no key and the message is not one
call_no_api_key(c) ==
    /\ calls[c].pc = "has_user"
    /\ The(calls[c].user).openai_api_key_encrypted = None
    /\ ~StartsWith(StrStrip(BodyOr(calls[c].body)), "sk-")
    /\ UNCHANGED <<users, db>>
    /\ CallStep(c, "returned", Some(SendApiKeyFirst))

\* the loaded user is set up: the text goes to process_message
call_process_user_message(c) ==
    /\ calls[c].pc = "has_user"
    /\ The(calls[c].user).openai_api_key_encrypted # None
    /\ UNCHANGED <<users, db>>
    /\ CallStep(c, "router", None)

\* the router node of the call's graph; of the bodies sent here the edge
\* leads to the help node or to the fallback node
call_route_message(c) ==
    /\ calls[c].pc = "router"
    /\ \E p \in {Some(parse(BodyOr(calls[c].body), today))} :
          /\ get_next_agent(p) \in {"help", "llm_fallback"}
          /\ calls' = [calls EXCEPT ![c].parsed = p, ![c].pc = get_next_agent(p)]
    /\ UNCHANGED <<today, user_message, parsed, response, db, pc, visited, llm_calls, calc,
                   result, users, inbox>>

\* the help node, and process returning its text
call_handle_help(c) ==
    /\ calls[c].pc = "help"
    /\ UNCHANGED <<users, db>>
    /\ CallStep(c, "returned", Some(get_help_message))

\* the fallback node, and process returning the model's text
call_handle_llm_fallback(c) ==
    /\ calls[c].pc = "llm_fallback"
    /\ UNCHANGED <<users, db>>
    /\ CallStep(c, "returned", Some("<response.content>"))

\* the fallback node when self.llm.ainvoke raises
call_handle_llm_fallback_fails(c) ==
    /\ calls[c].pc = "llm_fallback"
    /\ UNCHANGED <<users, db>>
    /\ CallStep(c, "raised", None)

SignupInit ==
    /\ today \in Todays
    /\ user_message = ""
    /\ parsed = None
    /\ response = ""
    /\ db = EmptyDb
    /\ pc = "idle"
    /\ visited = <<>>
    /\ llm_calls = 0
    /\ calc = None
    /\ result = None
    /\ users = <<>>
    /\ inbox = <<>>
    /\ calls \in [1..NCalls -> {NewCall(body) : body \in CallBodies}]

SignupNext ==
    \E c \in 1..NCalls :
        \/ call_get_user_by_phone(c)
        \/ call_create_user(c)
        \/ call_create_user_fails(c)
        \/ call_api_key(c)
        \/ call_no_api_key(c)
        \/ call_process_user_message(c)
        \/ call_route_message(c)
        \/ call_handle_help(c)
        \/ call_handle_llm_fallback(c)
        \/ call_handle_llm_fallback_fails(c)

SignupSpec == SignupInit /\ [][SignupNext]_vars

\* ------------------------------------------------------------------------
\* The claims
\* ------------------------------------------------------------------------

\* the node that ran after the router, once one has
RanHandler(node) == Len(visited) = 2 /\ visited[2] = node

\* C1: when the language-model call of the fallback handler fails, process
\* still returns a response: a run in which the fallback node has run never
\* ends with the exception reaching the caller of process.
C1_FallbackFailureNotPropagated == RanHandler("llm_fallback") => pc # "raised"

\* C2: the router runs exactly once, then exactly one handler node, and a
\* run that entered a handler reaches the end of the graph (Done): once the
\* handler node has run, the graph has ended, and nothing else has run.
C2_OneHandlerThenDone ==
    /\ Len(visited) <= 2
    /\ visited # <<>> => visited[1] = "router"
    /\ Len(visited) = 2 => (visited[2] \in Handlers /\ pc \in {"END", "returned"})

\* the routing table as the claim C3 states it
C3_Route(intent) ==
    CASE intent = ADD_EXPENSE -> "expense"
      [] intent = DELETE_EXPENSE -> "expense_delete"
      [] intent = QUERY_EXPENSES -> "query"
      [] intent = SPLIT_PAYMENT -> "split"
      [] intent = CHECK_DEBTS -> "debts"
      [] intent = SETTLE_DEBT -> "settle"
      [] intent = ADD_CATEGORY -> "category_add"
      [] intent = LIST_CATEGORIES -> "category_list"
      [] intent = HELP -> "help"
      [] intent = UNKNOWN -> "llm_fallback"

\* C3: the node entered after the router is the one the routing table gives
\* for the parsed intent (the node about to run right after the router, and
\* the node that did run afterwards); the nine intents other than Unknown go
\* to nine different handlers, Unknown and a missing parse result to the
\* fallback handler.
C3_RoutedByIntentOnly ==
    /\ Len(visited) = 1 => pc = C3_Route(The(parsed).intent)
    /\ Len(visited) = 2 => visited[2] = C3_Route(The(parsed).intent)
    /\ \A i \in Intent : get_next_agent(Some([intent |-> i])) = C3_Route(i)
    /\ \A i, j \in Intent \ {UNKNOWN} :
          i # j => get_next_agent(Some([intent |-> i])) # get_next_agent(Some([intent |-> j]))
    /\ get_next_agent(None) = "llm_fallback"

\* C3's case: a settle message has been routed to the settle handler, and
\* the handler has run
C3_Witness ==
    /\ RanHandler("settle")
    /\ The(parsed).intent = SETTLE_DEBT
    /\ user_message = "Rahul paid me back"

\* the classifier as the claim C4 states it: the first matching group in the
\* fixed order, the ninth group being "a numeric amount is extractable"
C4_FirstGroup(t) ==
    IF AnyMatch(DELETE_PATTERNS, t) THEN DELETE_EXPENSE
    ELSE IF AnyMatch(DEBT_SETTLE_PATTERNS, t) THEN SETTLE_DEBT
    ELSE IF AnyMatch(DEBT_CHECK_PATTERNS, t) THEN CHECK_DEBTS
    ELSE IF AnyMatch(SPLIT_PATTERNS, t) THEN SPLIT_PAYMENT
    ELSE IF AnyMatch(LIST_CATEGORY_PATTERNS, t) THEN LIST_CATEGORIES
    ELSE IF AnyMatch(CATEGORY_PATTERNS, t) THEN ADD_CATEGORY
    ELSE IF AnyMatch(QUERY_PATTERNS, t) THEN QUERY_EXPENSES
    ELSE IF AnyMatch(EXPENSE_PATTERNS, t) THEN ADD_EXPENSE
    ELSE IF parse_amount(t) # None THEN ADD_EXPENSE
    ELSE UNKNOWN

\* the lower-cased, trimmed text the classifier works on
TextLower == StrStrip(StrLower(user_message))

\* C4: for every text that is not a literal help command, the intent is that
\* of the first matching group in the order Delete, Settle, CheckDebts,
\* Split, ListCategories, AddCategory, Query, Spend-verb, has-a-number, and
\* Unknown only when no group matches.
C4_FirstMatchingGroupWins ==
    (Len(visited) = 1 /\ TextLower \notin {"help", "?", "commands"})
        => The(parsed).intent = C4_FirstGroup(TextLower)

\* C5: no split is calculated, and no split record is created, for fewer
\* than 2 participants.
C5_NoSplitBelowTwoParticipants ==
    /\ calc # None => The(calc).split_count >= 2
    /\ \A k \in 1..Len(db.splits) : db.splits[k].total_people >= 2

\* userShare + othersOwedTotal == total, in the program's arithmetic
C6_SumsToTotal(c) == DecEq(DecAdd(c.user_share, c.others_owe), c.total_amount)

\* the split calculation has run for a positive total and n >= 2
C6_Computed == calc # None /\ The(calc).split_count >= 2 /\ ~DecIsZero(The(calc).total_amount)

\* the totals the identity is guaranteed for: written with fewer digits than
\* the precision of the arithmetic
C6_MaxDigits == DecimalPrec - 1

\* C6 (as stated): for every positive total and every n >= 2 the calculated
\* userShare + othersOwedTotal equals total.
C6_ShareAndOthersSumToTotal == C6_Computed => C6_SumsToTotal(The(calc))

\* C6 (amended): for every positive total written with at most 27 digits and
\* every n >= 2, userShare + othersOwedTotal, added in the program's decimal
\* arithmetic (28 significant digits, half-even), equals total.
C6_SumsToTotalUpTo27Digits ==
    (C6_Computed /\ Len(The(calc).total_amount.c) <= C6_MaxDigits)
        => C6_SumsToTotal(The(calc))

\* C6's case: a 27-digit total divided by 7, the share rounded to the full
\* precision
C6_Witness ==
    /\ C6_Computed
    /\ The(calc).split_count = 7
    /\ Len(The(calc).total_amount.c) = C6_MaxDigits
    /\ Len(DecNorm(The(calc).user_share).c) = DecimalPrec

\* C7: the amount of every ParsedMessage is absent or strictly positive.
C7_AmountStrictlyPositive ==
    (parsed # None /\ The(parsed).amount # None) => ~DecIsZero(The(The(parsed).amount))

\* the message matches none of the keyword groups 1-8, holds no digit and is
\* no literal help command
C8_NoPatternNoNumber ==
    /\ Len(visited) = 1
    /\ TextLower \notin {"help", "?", "commands"}
    /\ \A g \in {DELETE_PATTERNS, DEBT_SETTLE_PATTERNS, DEBT_CHECK_PATTERNS, SPLIT_PATTERNS,
                 LIST_CATEGORY_PATTERNS, CATEGORY_PATTERNS, QUERY_PATTERNS,
                 EXPENSE_PATTERNS} : ~AnyMatch(g, TextLower)
    /\ \A i \in 1..Len(user_message) : ~IsDigit(CharAt(user_message, i))

\* C8 (as stated): a message that matches none of the groups 1-8 and holds
\* no number is parsed to Unknown with every entity field absent.
C8_UnknownAllFieldsAbsent ==
    C8_NoPatternNoNumber =>
        LET p == The(parsed)
        IN /\ p.intent = UNKNOWN
           /\ p.amount = None /\ p.description = None /\ p.category_hint = None
           /\ p.expense_date = None /\ p.time_range = None /\ p.split_count = None
           /\ p.split_people = None /\ p.person_name = None

\* the text holds none of the words the description extractor deletes, and
\* no run of spaces for it to collapse
C8_NothingToStrip(t) ==
    /\ \A w \in {"for", "on", "today", "yesterday", "last week", "this week", "this month",
                 "  "} : ~Contains(t, w)

\* C8 (amended): such a message is parsed to Unknown with amount, splitCount,
\* splitPeople and personName absent; description is what is left of the
\* text (the trimmed text itself when it holds nothing the extractor
\* deletes, absent only when nothing is left); categoryHint, expenseDate and
\* timeRange are present only when a category keyword, "yesterday" or a
\* time-range phrase occurs in the text.
C8_UnknownResidueDescription ==
    C8_NoPatternNoNumber =>
        LET p == The(parsed)
            trimmed == StrStrip(user_message)
        IN /\ p.intent = UNKNOWN
           /\ p.amount = None /\ p.split_count = None
           /\ p.split_people = None /\ p.person_name = None
           /\ C8_NothingToStrip(TextLower) =>
                 p.description = (IF trimmed = "" THEN None ELSE Some(trimmed))
           /\ p.category_hint # None =>
                 \E k \in 1..Len(CATEGORY_KEYWORDS) :
                    /\ The(p.category_hint) = Capitalize(CATEGORY_KEYWORDS[k][1])
                    /\ \E j \in 1..Len(CATEGORY_KEYWORDS[k][2]) :
                          Contains(TextLower, CATEGORY_KEYWORDS[k][2][j])
           /\ p.expense_date # None => Contains(TextLower, "yesterday")
           /\ p.time_range # None =>
                 \E w \in {"today", "yesterday", "week", "month"} : Contains(TextLower, w)

\* C8's case: "good morning" has been parsed, and its description is the
\* text
C8_Witness ==
    /\ C8_NoPatternNoNumber
    /\ user_message = "good morning"
    /\ The(parsed).description = Some("good morning")

\* "<amount> <words> with <Name> and <Name>": the match of the names at the
\* end of a message that starts with a digit
C9_Names ==
    Search(<<Lit("with"), Plus(ReSpace), ReName, Plus(ReSpace), Lit("and"), Plus(ReSpace),
             ReName>>, user_message, FALSE)

\* the message has the form of claim C9 and none of the split words
C9_AmountWordsWithNames ==
    /\ Len(visited) = 1
    /\ user_message # "" /\ IsDigit(Head(user_message))
    /\ C9_Names # <<>> /\ C9_Names[Len(C9_Names)] = Len(user_message) + 1
    /\ \A w \in {"split", "divide", "share", "among", "between"} : ~Contains(TextLower, w)

\* C9: a message "<amount> <words> with <Name> and <Name>" without the words
\* split/divide/share/among/between is classified SplitPayment, splitPeople
\* being the names in order and splitCount their number plus one.
C9_WithNamesIsSplitPayment ==
    C9_AmountWordsWithNames =>
        LET p == The(parsed)
            names == <<Group(user_message, C9_Names, 3), Group(user_message, C9_Names, 7)>>
        IN /\ p.intent = SPLIT_PAYMENT
           /\ p.split_people = Some(names)
           /\ p.split_count = Some(Len(names) + 1)

\* the characters that are no digits
C10_NonDigit == Cls(CharsOf(LowerLetters) \cup {" ", ",", ".", "$", "?", "'"})

\* split or divide, followed later by "N people": parts 1 (the word),
\* 2 (what lies in between), 3 (N)
C10_Followed ==
    Search(<<LitAlt(<<"split", "divide">>), Opt(Cat(<<Star(ReAny), C10_NonDigit>>)),
             Plus(ReDigit), Star(ReSpace), Lit("people")>>, TextLower, FALSE)

C10_N == IntOf(Group(TextLower, C10_Followed, 3), 0)

\* a SplitPayment message in which split or divide is followed later by
\* "N people"
C10_SplitThenPeople ==
    /\ Len(visited) = 1
    /\ The(parsed).intent = SPLIT_PAYMENT
    /\ C10_Followed # <<>>

\* C10: whatever lies between split/divide and "N people", the parse result
\* of a SplitPayment message has splitCount = N and splitPeople absent.
C10_CountWhateverLiesBetween ==
    C10_SplitThenPeople =>
        (The(parsed).split_count = Some(C10_N) /\ The(parsed).split_people = None)

\* C11: a message with split/divide/share/among/between wording or
\* "with N people", and without delete, settlement or debt-check wording, is
\* classified SplitPayment, whatever numbers and spend verbs it holds.
C11_SplitWording ==
    /\ Len(visited) = 1
    /\ AnyMatch(SPLIT_PATTERNS, TextLower)
    /\ \A g \in {DELETE_PATTERNS, DEBT_SETTLE_PATTERNS, DEBT_CHECK_PATTERNS} :
          ~AnyMatch(g, TextLower)

C11_SplitWordingIsSplitPayment ==
    C11_SplitWording => The(parsed).intent = SPLIT_PAYMENT

\* C11's case: a split message with a spend verb and a number has been
\* classified
C11_Witness ==
    /\ C11_SplitWording
    /\ user_message = "spent 2000 split with 4 people"
    /\ AnyMatch(EXPENSE_PATTERNS, TextLower) /\ parse_amount(user_message) # None
    /\ The(parsed).intent = SPLIT_PAYMENT

\* the text of the extracted amount: group 1 of the first amount pattern that
\* matches the message
C12_AmountText ==
    LET hits == {k \in 1..Len(AMOUNT_PATTERNS) :
                    Search(AMOUNT_PATTERNS[k].parts, user_message, TRUE) # <<>>}
        k == CHOOSE h \in hits : \A j \in hits : h <= j
    IN Group(user_message, Search(AMOUNT_PATTERNS[k].parts, user_message, TRUE),
             AMOUNT_PATTERNS[k].grp)

\* the word w stands in the text d as a word of its own
C12_HasWord(d, w) == Search(<<WordB, Lit(w), WordB>>, d, TRUE) # <<>>

\* C12: the description holds no residue: not the digits of the extracted
\* amount, no spend verb, neither "for" nor "on", no time word; and it is
\* never the empty text.
C12_DescriptionHasNoResidue ==
    (Len(visited) = 1 /\ The(parsed).description # None) =>
        LET d == The(The(parsed).description)
        IN /\ d # ""
           /\ The(parsed).amount # None => ~Contains(d, C12_AmountText)
           /\ \A w \in {"spent", "paid", "bought", "for", "on", "today", "yesterday",
                         "last week", "this week", "this month"} : ~C12_HasWord(d, w)

\* the message is a literal help command and has been parsed
C13_HelpLiteral == Len(visited) >= 1 /\ TextLower \in {"help", "?", "commands"}

\* C13: a literal help command is parsed to intent Help with no entity
\* extracted: amount, description, categoryHint, expenseDate, timeRange,
\* splitCount, splitPeople and personName absent, the currency the home
\* default, rawText the message as it came.
C13_HelpShortCircuits ==
    C13_HelpLiteral =>
        The(parsed) = [intent |-> HELP, amount |-> None, currency |-> "INR",
                       description |-> None, category_hint |-> None,
                       expense_date |-> None, split_count |-> None,
                       split_people |-> None, person_name |-> None,
                       time_range |-> None, raw_text |-> user_message]

\* C13's case: " HELP ", help only once lower-cased and trimmed, has been
\* parsed and keeps its raw text
C13_Witness ==
    /\ C13_HelpLiteral
    /\ user_message = " HELP "
    /\ The(parsed).intent = HELP /\ The(parsed).raw_text = " HELP "

\* the message a handler answers when the entity it needs is absent, or
\* None when nothing it needs is absent
C14_Clarification ==
    LET p == The(parsed)
    IN IF pc = "expense" /\ p.amount = None
       THEN Some("I couldn't detect an amount. Please try again with a clear amount like '500' or '$20'.")
       ELSE IF pc = "split" /\ p.amount = None
       THEN Some("I couldn't detect an amount. Please specify how much was spent.")
       ELSE IF pc = "split" /\ p.split_count = None /\ p.split_people = None
       THEN Some("Please specify how many people to split with or name them.")
       ELSE None

\* C14: when the amount is absent (add_expense, create_split_expense), or
\* splitCount and splitPeople are both absent (create_split_expense), the
\* handler step ends the run with the clarification message as its response
\* and leaves every table as it was.
C14_MissingEntityReported ==
    [][(pc \in {"expense", "split"} /\ C14_Clarification # None)
          => (response' = The(C14_Clarification) /\ db' = db /\ pc' = "END")]_vars

\* C14's case: the expense handler has answered a spend verb without an
\* amount, and nothing was stored
C14_Witness ==
    /\ RanHandler("expense")
    /\ user_message = "spent" /\ The(parsed).amount = None
    /\ response = "I couldn't detect an amount. Please try again with a clear amount like '500' or '$20'."
    /\ db = FreshDb

\* C14's other case: the split handler has asked for the people of a split
\* that has an amount, and nothing was stored
C14_WitnessSplit ==
    /\ RanHandler("split")
    /\ The(parsed).amount # None
    /\ The(parsed).split_count = None /\ The(parsed).split_people = None
    /\ response = "Please specify how many people to split with or name them."
    /\ db = FreshDb

\* the currency code the table maps the symbol to
C15_Code(sym) ==
    CURRENCY_SYMBOLS[CHOOSE k \in 1..Len(CURRENCY_SYMBOLS) : CURRENCY_SYMBOLS[k][1] = sym][2]

\* the <<symbol, number>> pairs of the message in which a currency symbol
\* stands immediately before or immediately after a number
C15_Adjacent ==
    LET s == user_message
        before(i) == Bounds(<<ReSymbol, ReNumber>>, 1, s, i)
        after(i) == Bounds(<<ReNumber, ReSymbol>>, 1, s, i)
        starts(i) == i = 1 \/ CharAt(s, i - 1) \notin CharsOf(DigitChars) \cup {",", "."}
    IN {<<Group(s, before(i), 1), Group(s, before(i), 2)>> :
           i \in {j \in 1..Len(s) : before(j) # <<>>}}
       \cup {<<Group(s, after(i), 2), Group(s, after(i), 1)>> :
                i \in {j \in 1..Len(s) : starts(j) /\ after(j) # <<>>}}

C16_NumberOnly ==
    /\ Len(visited) = 1
    /\ TextLower \notin {"help", "?", "commands"}
    /\ \A g \in {DELETE_PATTERNS, DEBT_SETTLE_PATTERNS, DEBT_CHECK_PATTERNS, SPLIT_PATTERNS,
                 LIST_CATEGORY_PATTERNS, CATEGORY_PATTERNS, QUERY_PATTERNS,
                 EXPENSE_PATTERNS} : ~AnyMatch(g, TextLower)
    /\ parse_amount(user_message) # None

\* C16: a text from which an amount is extractable and which matches none of
\* the groups 1-8 is classified AddExpense, a text whose only number is
\* zero included.
C16_ExtractableAmountIsAddExpense ==
    C16_NumberOnly => The(parsed).intent = ADD_EXPENSE

\* the message holds the spend verb expense, cost or charged, no wording of
\* the groups 1-6 and none of the query words the claim C17 lists
C17_SpendVerbNoQueryWord ==
    /\ Len(visited) = 1
    /\ \E w \in {"expense", "cost", "charged"} : Contains(TextLower, w)
    /\ \A g \in {DELETE_PATTERNS, DEBT_SETTLE_PATTERNS, DEBT_CHECK_PATTERNS, SPLIT_PATTERNS,
                 LIST_CATEGORY_PATTERNS, CATEGORY_PATTERNS} : ~AnyMatch(g, TextLower)
    /\ \A w \in {"how much", "show", "list", "summary", "spending", "what did i",
                 "expenses"} : ~Contains(TextLower, w)

\* C17: a message with the spend verb expense (singular), cost or charged,
\* without wording of the groups 1-6 and without the query words how much,
\* show, list, summary, spending, what did i, expenses, is classified
\* AddExpense and not QueryExpenses.
C17_SpendVerbIsAddExpense ==
    C17_SpendVerbNoQueryWord => The(parsed).intent = ADD_EXPENSE

\* C18: in every parse result with splitPeople non-empty, splitCount is the
\* number of the people plus one, and that is the count the split handler
\* divides by; splitCount and splitPeople are present only when the intent
\* is SplitPayment.
C18_CountIsPeoplePlusOne ==
    parsed # None =>
        LET p == The(parsed)
        IN /\ (p.split_people # None /\ The(p.split_people) # <<>>) =>
                 /\ p.split_count = Some(Len(The(p.split_people)) + 1)
                 /\ calc # None => The(calc).split_count = Len(The(p.split_people)) + 1
                 /\ SplitCalc(p) # None =>
                       The(SplitCalc(p)).split_count = Len(The(p.split_people)) + 1
           /\ (p.split_count # None \/ p.split_people # None) => p.intent = SPLIT_PAYMENT

\* C18's case: a split with three named people has been divided by four
C18_Witness ==
    /\ RanHandler("split")
    /\ user_message = "split 900 with Rahul, Priya and Amit"
    /\ The(parsed).split_people = Some(<<"Rahul", "Priya", "Amit">>)
    /\ The(parsed).split_count = Some(4)
    /\ calc # None /\ The(calc).split_count = 4

\* the split handler has created its records
C19_SplitCreated ==
    /\ RanHandler("split") /\ pc \in {"END", "returned"}
    /\ calc # None /\ response = "Split expense created!"

\* the people the parse result names
C19_People ==
    IF The(parsed).split_people = None THEN <<>> ELSE The(The(parsed).split_people)

\* one debt per named person, in the order named, owes-me, unsettled, linked
\* to the created expense, each of the given amount; none without names
C19_DebtsAre(amount) ==
    /\ Len(db.expenses) = 1
    /\ Len(db.debts) = Len(C19_People)
    /\ \A k \in 1..Len(db.debts) :
          /\ db.debts[k].person_name = C19_People[k]
          /\ DecEq(db.debts[k].amount, amount)
          /\ db.debts[k].direction = "owes_me"
          /\ db.debts[k].is_settled = FALSE
          /\ db.debts[k].user_id = user
          /\ db.debts[k].related_expense_id = Some(db.expenses[1].id)

\* C19 (as stated): the debts created for a split are one per named person,
\* in order, each of exactly total / participantCount, owes-me, unsettled
\* and linked to the expense; none when no person is named.
C19_DebtOfExactlyPerPerson ==
    C19_SplitCreated => C19_DebtsAre(The(calc).per_person)

\* C19 (amended): the same, the amount of each debt being
\* total / participantCount as the Numeric(12, 2) column stores it, rounded
\* to two decimal places.
C19_DebtOfPerPersonToTheCent ==
    C19_SplitCreated => C19_DebtsAre(ToNumeric(The(calc).per_person))

\* C19's case: a split of 100 with two named people has created two debts
\* of 33.33
C19_Witness ==
    /\ C19_SplitCreated
    /\ user_message = "divide 100 dinner with Rahul and Priya"
    /\ Len(db.debts) = 2
    /\ db.debts[1].person_name = "Rahul" /\ db.debts[2].person_name = "Priya"
    /\ DecEq(db.debts[1].amount, DecFromStr("33.33"))
    /\ ~DecEq(The(calc).per_person, db.debts[1].amount)

\* a day of the month followed by a month name in the message: parts
\* 1 (the day, a number of one or two digits) and 5 (the month name)
C20_DayMonth ==
    LET t == TextLower
        parts == <<Rep(ReDigit, 1, 2), Opt(LitAlt(<<"st", "nd", "rd", "th">>)),
                   Star(ReSpace), Opt(Cat(<<Lit("of"), Star(ReSpace)>>)),
                   LitAlt(MonthNames)>>
        starts == {i \in 1..Len(t) :
                     /\ Bounds(parts, 1, t, i) # <<>>
                     /\ (i = 1 \/ ~IsDigit(CharAt(t, i - 1)))}
    IN IF starts = {} THEN <<>>
       ELSE Bounds(parts, 1, t, CHOOSE i \in starts : \A j \in starts : i <= j)

\* C20: for a text with a day of the month followed by a month name (and
\* without "yesterday"), the date extracted is that day of that month of the
\* current year, wherever in the text it stands and whatever numbers come
\* before it; it is absent when the month has no such day.
C20_DayAndMonthGiveTheDate ==
    (Len(visited) = 1 /\ C20_DayMonth # <<>> /\ ~Contains(TextLower, "yesterday")) =>
        LET day == IntOf(Group(TextLower, C20_DayMonth, 1), 0)
            month == CHOOSE m \in 1..12 : MonthNames[m] = Group(TextLower, C20_DayMonth, 5)
        IN The(parsed).expense_date =
              (IF ValidDate(today[1], month, day) THEN Some(<<today[1], month, day>>)
               ELSE None)

C22_Codes == {CURRENCY_SYMBOLS[k][2] : k \in 1..Len(CURRENCY_SYMBOLS)}

\* C22: whatever the text (empty, blank, only digits, only symbols, a day
\* number no month has), the router gets a ParsedMessage from parse and goes
\* on to a handler: the intent is one of the ten, the currency is a
\* three-letter code of the table, rawText is the text as it came, and an
\* amount or date that is present is a well-formed number or an existing
\* day.
C22_ParseIsTotal ==
    Len(visited) >= 1 =>
        /\ parsed # None
        /\ The(parsed).intent \in Intent
        /\ Len(The(parsed).currency) = 3 /\ The(parsed).currency \in C22_Codes
        /\ The(parsed).raw_text = user_message
        /\ The(parsed).amount # None =>
              \A k \in 1..Len(The(The(parsed).amount).c) : The(The(parsed).amount).c[k] \in 0..9
        /\ The(parsed).expense_date # None =>
              LET d == The(The(parsed).expense_date) IN ValidDate(d[1], d[2], d[3])
        /\ (Len(visited) = 1 => pc \in Handlers)

\* C22's case: a day number that February does not have has been parsed,
\* the date is absent and the text kept
C22_Witness ==
    /\ Len(visited) = 1
    /\ user_message = "30 feb"
    /\ The(parsed).expense_date = None
    /\ The(parsed).raw_text = "30 feb" /\ The(parsed).currency = "INR"

\* the currency words of the table (its entries of letters only) that stand
\* in the message as words of their own
C27_WordsInText ==
    {k \in 1..Len(CURRENCY_SYMBOLS) :
        /\ \A i \in 1..Len(CURRENCY_SYMBOLS[k][1]) :
              IsLower(CharAt(CURRENCY_SYMBOLS[k][1], i))
        /\ Search(<<WordB, Lit(CURRENCY_SYMBOLS[k][1]), WordB>>, user_message, TRUE) # <<>>}

\* the currency symbols in the message
C27_SymbolsInText == {c \in {"₹", "$", "€", "£", "¥"} : Contains(user_message, c)}

\* C27: without a currency symbol and with exactly one currency word in the
\* text, the currency is the code of that word; with a currency symbol in
\* the text, the currency is the code of a symbol of the text.
C27_OneCurrencyWordDecides ==
    (Len(visited) = 1 /\ TextLower \notin {"help", "?", "commands"}) =>
        /\ (C27_SymbolsInText = {} /\ Cardinality(C27_WordsInText) = 1) =>
              \A k \in C27_WordsInText : The(parsed).currency = CURRENCY_SYMBOLS[k][2]
        /\ C27_SymbolsInText # {} =>
              \E c \in C27_SymbolsInText : The(parsed).currency = C15_Code(c)

\* the message holds the phrase as words of its own, and none of the words
\* in others
C28_Says(phrase, others) ==
    /\ Len(visited) = 1
    /\ TextLower \notin {"help", "?", "commands"}
    /\ Search(<<WordB, Lit(phrase), WordB>>, TextLower, FALSE) # <<>>
    /\ \A w \in others : ~Contains(TextLower, w)

\* C28: each of the six ranges is produced for its own phrase: a text with
\* "last week" (and neither today nor yesterday) gives last_week, a text
\* with "last month" (and no today, yesterday or week) gives last_month; so
\* do "today", "yesterday", "this week" and "this month" give their ranges.
C28_EachPhraseGivesItsRange ==
    /\ C28_Says("today", {}) => The(parsed).time_range = Some("today")
    /\ C28_Says("yesterday", {"today"}) => The(parsed).time_range = Some("yesterday")
    /\ C28_Says("this week", {"today", "yesterday"})
          => The(parsed).time_range = Some("this_week")
    /\ C28_Says("last week", {"today", "yesterday"})
          => The(parsed).time_range = Some("last_week")
    /\ C28_Says("this month", {"today", "yesterday", "week"})
          => The(parsed).time_range = Some("this_month")
    /\ C28_Says("last month", {"today", "yesterday", "week"})
          => The(parsed).time_range = Some("last_month")

\* the date a is not after the date b
C23_NotAfter(a, b) ==
    \/ a[1] < b[1]
    \/ a[1] = b[1] /\ a[2] < b[2]
    \/ a[1] = b[1] /\ a[2] = b[2] /\ a[3] <= b[3]

\* the user's expenses in the currency of the query, dated from the first
\* day of the current month to today
C23_ThisMonth ==
    {k \in 1..Len(db.expenses) :
        /\ db.expenses[k].user_id = user
        /\ db.expenses[k].currency = The(parsed).currency
        /\ db.expenses[k].expense_date[1] = today[1]
        /\ db.expenses[k].expense_date[2] = today[2]
        /\ db.expenses[k].expense_date[3] <= today[3]}

\* C23: a text that names no time range is parsed with timeRange absent,
\* and the query handler then reports on the current month, from its first
\* day to today (it finds expenses exactly when there are some in that
\* range); the range of every named time range starts no later than it
\* ends.
C23_AbsentRangeIsThisMonth ==
    /\ (Len(visited) >= 1
        /\ \A w \in {"today", "yesterday", "week", "month"} : ~Contains(TextLower, w))
          => The(parsed).time_range = None
    /\ (RanHandler("query") /\ The(parsed).time_range = None)
          => /\ get_date_range(None, today) = <<<<today[1], today[2], 1>>, today>>
             /\ (response = "No expenses found") <=> (C23_ThisMonth = {})
    /\ \A r \in {None} \cup {Some(TIME_PATTERNS[k][1]) : k \in 1..Len(TIME_PATTERNS)} :
          C23_NotAfter(get_date_range(r, today)[1], get_date_range(r, today)[2])

\* C23's case: "summary" names no range; asked on the 15th, it has reported
\* the expense of the 5th
C23_Witness ==
    /\ RanHandler("query")
    /\ user_message = "summary" /\ The(parsed).time_range = None
    /\ today = <<2024, 3, 15>>
    /\ \E k \in C23_ThisMonth : db.expenses[k].expense_date = <<2024, 3, 5>>
    /\ \A k \in C23_ThisMonth : db.expenses[k].expense_date # today
    /\ response = "*Spending Summary*"

\* the stored category the category hint of the query resolves to, or None
C29_Category ==
    IF The(parsed).category_hint = None THEN None
    ELSE get_category_by_name(db, user, The(The(parsed).category_hint))

\* the user's expenses of that category, in the currency and the date range
\* of the query
C29_OfCategory ==
    LET range == get_date_range(The(parsed).time_range, today)
    IN {k \in 1..Len(db.expenses) :
           /\ db.expenses[k].user_id = user
           /\ db.expenses[k].currency = The(parsed).currency
           /\ db.expenses[k].category = C29_Category
           /\ C23_NotAfter(range[1], db.expenses[k].expense_date)
           /\ C23_NotAfter(db.expenses[k].expense_date, range[2])}

\* C29: when the category hint of a query resolves to a stored category,
\* the summary covers the expenses of that category only: the handler
\* reports "No expenses found" exactly when the user has no expense of that
\* category in the range.
C29_SummaryOfTheCategoryOnly ==
    (RanHandler("query") /\ C29_Category # None)
        => ((response = "No expenses found") <=> (C29_OfCategory = {}))

\* the text before " paid me back"
C24_Name == SubSeq(user_message, 1, Len(user_message) - 13)

\* the message is "<Name> paid me back", Name a capitalized word
C24_PaidMeBack ==
    /\ Len(user_message) > 14
    /\ SubSeq(user_message, Len(user_message) - 12, Len(user_message)) = " paid me back"
    /\ IsUpper(CharAt(C24_Name, 1))
    /\ \A i \in 2..Len(C24_Name) : IsLower(CharAt(C24_Name, i))

\* the debts of the user that are pending under the name, whatever its case
C24_PendingOf(name) ==
    {k \in 1..Len(db.debts) : /\ db.debts[k].user_id = user
                              /\ ~db.debts[k].is_settled
                              /\ StrLower(db.debts[k].person_name) = StrLower(name)}

C26_Named(P) ==
    {k \in 1..Len(db.debts) : /\ db.debts[k].user_id = user
                              /\ StrLower(db.debts[k].person_name) = StrLower(P)}

\* C26: after settle_debts_by_person(user, P) every debt of the user whose
\* person name equals P ignoring case is settled, the returned count is the
\* number of those that were unsettled before, every other debt (another
\* name, another user) is unchanged, no settled debt becomes unsettled in any
\* step, and the same call repeated at once returns 0 and the text "No
\* pending debts found".
C26_SettleByPersonFrame ==
    [][/\ Len(db'.debts) >= Len(db.debts)
       /\ \A k \in 1..Len(db.debts) : db.debts[k].is_settled => db'.debts[k].is_settled
       /\ (pc = "settle" /\ The(parsed).person_name # None)
           => LET P == The(The(parsed).person_name)
                  before == {k \in C26_Named(P) : ~db.debts[k].is_settled}
                  again == settle_debts_by_person(db', user, P)
              IN /\ Len(db'.debts) = Len(db.debts)
                 /\ \A k \in C26_Named(P) : db'.debts[k].is_settled
                 /\ \A k \in (1..Len(db.debts)) \ before : db'.debts[k] = db.debts[k]
                 /\ settle_debts_by_person(db, user, P) = <<db', Cardinality(before)>>
                 /\ response' = IF Cardinality(before) > 0 THEN "Settled"
                                ELSE "No pending debts found"
                 /\ again = <<db', 0>>
                 /\ settle_debt(db', P) = Returns(db', "No pending debts found")]_vars

\* a settlement for "Rahul" settled the debt stored under "rahul" while the
\* debt another user holds against Rahul stays pending
C26_Witness ==
    /\ RanHandler("settle")
    /\ The(parsed).person_name = Some("Rahul")
    /\ response = "Settled"
    /\ \E k \in 1..Len(db.debts) :
          /\ db.debts[k].user_id = user
          /\ db.debts[k].person_name = "rahul"
          /\ db.debts[k].is_settled
    /\ \E k \in 1..Len(db.debts) :
          /\ db.debts[k].user_id # user
          /\ db.debts[k].person_name = "Rahul"
          /\ ~db.debts[k].is_settled

\* the nodes of the graph, and its end before process returns
C25_InAgentSystem ==
    pc \in {"router", "expense", "expense_delete", "query", "split", "debts", "settle",
            "category_add", "category_list", "help", "llm_fallback", "END"}

\* the user of the number exists and has a stored key
C25_SetUp ==
    /\ get_user_by_phone(users, from_number) # None
    /\ users[The(get_user_by_phone(users, from_number))].openai_api_key_encrypted # None

\* a message of the number is taken up in this step
C25_Received == Idle /\ inbox # <<>> /\ inbox' = Tail(inbox)

\* the step leaves the parser, the graph and the expenses alone
C25_NotParsed ==
    /\ parsed' = parsed
    /\ user_message' = user_message
    /\ visited' = visited
    /\ pc' = "returned"
    /\ db'.expenses = db.expenses

\* the first message of an unseen number only creates the user and welcomes
C25_FirstMessage ==
    (C25_Received /\ get_user_by_phone(users, from_number) = None)
        => /\ users' = <<[phone_number |-> from_number, openai_api_key_encrypted |-> None]>>
           /\ result' = Some(WelcomeMessage)
           /\ C25_NotParsed

\* the agent system runs for a set-up user only
C25_Gate ==
    /\ C25_InAgentSystem => C25_SetUp
    /\ (C25_Received /\ ~C25_SetUp) => C25_NotParsed

\* C25 as stated: for any sequence of messages of one phone number the agent
\* system is invoked only for an existing user with a stored key; the first
\* message of an unseen number only creates the user and returns the welcome
\* text; a message of a key-less user stores a key only if its body starts
\* with "sk-" and otherwise changes nothing; neither message is parsed.
C25_KeyOnlyIfBodyStartsWithSk ==
    [][/\ C25_Gate
       /\ C25_FirstMessage
       /\ (C25_Received /\ get_user_by_phone(users, from_number) # None /\ ~C25_SetUp)
           => \/ StartsWith(BodyOr(Head(inbox)), "sk-")
              \/ users' = users /\ db' = db]_vars

\* C25, the key test on the body without its surrounding white space: the
\* agent system is invoked only for an existing user with a stored key; the
\* first message of an unseen number only creates the user and returns the
\* welcome text; a message of a key-less user stores a key, the trimmed body,
\* only if the trimmed body starts with "sk-" and otherwise changes nothing;
\* neither message is parsed.
C25_KeyOnlyIfTrimmedBodyStartsWithSk ==
    [][/\ C25_Gate
       /\ C25_FirstMessage
       /\ (C25_Received /\ get_user_by_phone(users, from_number) # None /\ ~C25_SetUp)
           => LET body == StrStrip(BodyOr(Head(inbox)))
              IN IF StartsWith(body, "sk-")
                 THEN /\ users' = update_user_api_key(users, 1, encrypt_api_key(body))
                      /\ db' = db
                      /\ result' = Some(ApiKeySaved)
                 ELSE /\ users' = users
                      /\ db' = db
                      /\ result' = Some(SendApiKeyFirst)]_vars

\* after the welcome and a refused message the key was stored, nothing was
\* parsed, and a message is still to come
C25_Witness ==
    /\ C25_SetUp
    /\ result = Some(ApiKeySaved)
    /\ parsed = None
    /\ db.expenses = <<>>
    /\ Len(inbox) = MaxInbox - 2

\* the message after the key reached the expense handler
C25_WitnessAgent ==
    /\ C25_SetUp
    /\ RanHandler("expense")
    /\ Len(db.expenses) = 1

\* the calls that have finished, with a text or with an exception
C30_Finished == {c \in DOMAIN calls : calls[c].pc \in {"returned", "raised"}}

\* no two user records share a phone number
C30_PhoneNumbersUnique ==
    \A j, k \in 1..Len(users) : users[j].phone_number = users[k].phone_number => j = k

\* C30: whatever the interleaving of the calls of handle_incoming_message
\* for one unseen phone number, no two user records share the number, once
\* all calls have finished there is exactly one record of it, and every
\* call that finished returned a response text, none raised.
C30_OneUserAndEveryCallAnswered ==
    /\ C30_PhoneNumbersUnique
    /\ (calls # <<>> /\ C30_Finished = DOMAIN calls)
           => Cardinality({k \in 1..Len(users) : users[k].phone_number = from_number}) = 1
    /\ \A c \in C30_Finished : calls[c].pc = "returned" /\ calls[c].response # None

\* the records stay unique and one exists in the end: the part of C30 that
\* the unique column gives
C30_OneUser ==
    /\ C30_PhoneNumbersUnique
    /\ (calls # <<>> /\ C30_Finished = DOMAIN calls)
           => Cardinality({k \in 1..Len(users) : users[k].phone_number = from_number}) = 1

\* two calls found no user, one created it and the other failed on the insert
C30_SecondInsertFails ==
    \E c, d \in DOMAIN calls :
        /\ calls[c].pc = "returned"
        /\ calls[c].response = Some(WelcomeMessage)
        /\ calls[d].pc = "raised"
        /\ calls[d].user = None

====